---------------------------- MODULE Spec2Model ----------------------------
(***************************************************************************)
(* bible-mcp: the reference resolution engine (src/utils/referenceUtils.ts) *)
(* the token assembler and verse queries (src/db/database.ts) and the       *)
(* getEnglishText tool handler (src/server.ts).                             *)
(*                                                                          *)
(* Texts are TLA+ strings; a character is a string of length 1.  An         *)
(* optional value (a JS value that may be null or undefined) is a sequence  *)
(* of length 0 or 1.  A regex capture group that did not participate is "". *)
(***************************************************************************)
EXTENDS Integers, Sequences, FiniteSets, TLC

(***************************************************************************)
(* Strings                                                                  *)
(***************************************************************************)
None == <<>>

Some(x) == <<x>>

CharAt(s, i) == IF i >= 1 /\ i <= Len(s) THEN SubSeq(s, i, i) ELSE ""

UpperLetters == "ABCDEFGHIJKLMNOPQRSTUVWXYZ"

LowerLetters == "abcdefghijklmnopqrstuvwxyz"

DigitChars == "0123456789"

IsDigit(c) == \E i \in 1..10 : CharAt(DigitChars, i) = c

\* \s of the regex and the characters String.prototype.trim removes
IsSpace(c) == c \in {" ", "\t"}

LowerChar(c) ==
    IF \E i \in 1..26 : CharAt(UpperLetters, i) = c
    THEN CharAt(LowerLetters, CHOOSE i \in 1..26 : CharAt(UpperLetters, i) = c)
    ELSE c

UpperChar(c) ==
    IF \E i \in 1..26 : CharAt(LowerLetters, i) = c
    THEN CharAt(UpperLetters, CHOOSE i \in 1..26 : CharAt(LowerLetters, i) = c)
    ELSE c

\* every letter lower-cased, the text taken half by half
RECURSIVE toLowerCase(_)
toLowerCase(s) ==
    IF Len(s) <= 1 THEN LowerChar(s)
    ELSE toLowerCase(SubSeq(s, 1, Len(s) \div 2))
         \o toLowerCase(SubSeq(s, (Len(s) \div 2) + 1, Len(s)))

RECURSIVE toUpperCase(_)
toUpperCase(s) ==
    IF Len(s) <= 1 THEN UpperChar(s)
    ELSE toUpperCase(SubSeq(s, 1, Len(s) \div 2))
         \o toUpperCase(SubSeq(s, (Len(s) \div 2) + 1, Len(s)))

startsWith(s, p) == Len(p) <= Len(s) /\ SubSeq(s, 1, Len(p)) = p

RECURSIVE trimStart(_)
trimStart(s) ==
    IF s # "" /\ IsSpace(CharAt(s, 1)) THEN trimStart(SubSeq(s, 2, Len(s))) ELSE s

RECURSIVE trimEnd(_)
trimEnd(s) ==
    IF s # "" /\ IsSpace(CharAt(s, Len(s))) THEN trimEnd(SubSeq(s, 1, Len(s) - 1)) ELSE s

trim(s) == trimEnd(trimStart(s))

\* Number.prototype.toString for a non-negative integer
RECURSIVE toString(_)
toString(n) ==
    IF n < 10 THEN CharAt(DigitChars, n + 1)
    ELSE toString(n \div 10) \o CharAt(DigitChars, (n % 10) + 1)

RECURSIVE padStart(_, _, _)
padStart(s, width, fill) ==
    IF Len(s) >= width THEN s ELSE padStart(fill \o s, width, fill)

DigitValue(c) == (CHOOSE i \in 1..10 : CharAt(DigitChars, i) = c) - 1

\* parseInt(s, 10) on the leading run of digits; NaN (no leading digit) is None
RECURSIVE parseDigits(_, _, _)
parseDigits(s, i, acc) ==
    IF IsDigit(CharAt(s, i))
    THEN parseDigits(s, i + 1, acc * 10 + DigitValue(CharAt(s, i)))
    ELSE acc

parseInt(s) == IF IsDigit(CharAt(s, 1)) THEN Some(parseDigits(s, 1, 0)) ELSE None

(***************************************************************************)
(* The catalog: BibleLookup.json as loaded at module start.  A fragment of  *)
(* the 66 books that keeps the shapes the reference engine depends on: an   *)
(* unnumbered book whose name is the tail of numbered books' names,         *)
(* abbreviations with and without a period, with and without a space after  *)
(* the leading digit, a chapter with a 3-digit verse count, and an          *)
(* abbreviation of a New Testament book ("Jud") that is the beginning of an *)
(* earlier Old Testament book's name ("Judges"), and an abbreviation ("T")  *)
(* that, behind a digit, begins the names of two numbered books of which    *)
(* the later one has the shorter abbreviation.                              *)
(***************************************************************************)
bibleData ==
    << [ord |-> "01", name |-> "Genesis", testament |-> "OT", osisId |-> "Gen",
        abbreviations |-> <<"Gen", "Ge", "Gn.">>,
        chapters |-> ("1" :> 31 @@ "2" :> 25)],
       [ord |-> "07", name |-> "Judges", testament |-> "OT", osisId |-> "Judg",
        abbreviations |-> <<"Jdg">>,
        chapters |-> ("1" :> 36)],
       [ord |-> "19", name |-> "Psalms", testament |-> "OT", osisId |-> "Ps",
        abbreviations |-> <<"Ps">>,
        chapters |-> ("117" :> 2 @@ "118" :> 29 @@ "119" :> 176)],
       [ord |-> "43", name |-> "John", testament |-> "NT", osisId |-> "John",
        abbreviations |-> <<"Jn">>,
        chapters |-> ("1" :> 51 @@ "2" :> 25 @@ "3" :> 36)],
       [ord |-> "52", name |-> "1 Thessalonians", testament |-> "NT", osisId |-> "1Thess",
        abbreviations |-> <<"1 Thess">>,
        chapters |-> ("1" :> 10)],
       [ord |-> "54", name |-> "1 Timothy", testament |-> "NT", osisId |-> "1Tim",
        abbreviations |-> <<"1 Ti">>,
        chapters |-> ("1" :> 20)],
       [ord |-> "56", name |-> "Titus", testament |-> "NT", osisId |-> "Titus",
        abbreviations |-> <<"Tit", "T">>,
        chapters |-> ("1" :> 16)],
       [ord |-> "62", name |-> "1 John", testament |-> "NT", osisId |-> "1John",
        abbreviations |-> <<"1 Jn", "1Jn">>,
        chapters |-> ("1" :> 10)],
       [ord |-> "64", name |-> "3 John", testament |-> "NT", osisId |-> "3John",
        abbreviations |-> <<"3 Jn">>,
        chapters |-> ("1" :> 15)],
       [ord |-> "65", name |-> "Jude", testament |-> "NT", osisId |-> "Jude",
        abbreviations |-> <<"Jud">>,
        chapters |-> ("1" :> 25)] >>

\* Map.prototype.set on a map kept as its entries <<key, value>> in insertion
\* order: an existing key keeps its place and takes the new value.
MapSet(m, k, v) ==
    IF \E i \in 1..Len(m) : m[i][1] = k
    THEN [i \in 1..Len(m) |-> IF m[i][1] = k THEN <<k, v>> ELSE m[i]]
    ELSE Append(m, <<k, v>>)

MapHas(m, k) == \E i \in 1..Len(m) : m[i][1] = k

\* Map.prototype.get: the value, or None (undefined)
MapGet(m, k) ==
    IF MapHas(m, k) THEN Some(m[CHOOSE i \in 1..Len(m) : m[i][1] = k][2]) ELSE None

RECURSIVE BuildNumberMap(_, _)
BuildNumberMap(m, b) ==
    IF b > Len(bibleData) THEN m
    ELSE BuildNumberMap(MapSet(m, bibleData[b].ord, bibleData[b]), b + 1)

bookNumberMap == BuildNumberMap(<<>>, 1)

\* abbr.toLowerCase().replace(/\./g, '')
RECURSIVE stripPeriods(_)
stripPeriods(s) ==
    IF s = "" THEN ""
    ELSE (IF CharAt(s, 1) = "." THEN "" ELSE CharAt(s, 1)) \o stripPeriods(SubSeq(s, 2, Len(s)))

RECURSIVE SetAbbreviations(_, _, _)
SetAbbreviations(m, book, a) ==
    IF a > Len(book.abbreviations) THEN m
    ELSE LET abbr == book.abbreviations[a]
             m1 == MapSet(m, toLowerCase(abbr), book)
             m2 == MapSet(m1, stripPeriods(toLowerCase(abbr)), book)
         IN  SetAbbreviations(m2, book, a + 1)

RECURSIVE BuildNameMap(_, _)
BuildNameMap(m, b) ==
    IF b > Len(bibleData) THEN m
    ELSE LET book == bibleData[b]
             m1 == MapSet(m, toLowerCase(book.name), book)
         IN  BuildNameMap(SetAbbreviations(m1, book, 1), b + 1)

bookNameMap == BuildNameMap(<<>>, 1)

RegexSpecials == ".*+?^${}()|[]\\"

IsRegexSpecial(c) == \E i \in 1..Len(RegexSpecials) : CharAt(RegexSpecials, i) = c

\* s.replace(/[.*+?^${}()|[\]\\]/g, '\\$&')
RECURSIVE escapeRegex(_)
escapeRegex(s) ==
    IF s = "" THEN ""
    ELSE (IF IsRegexSpecial(CharAt(s, 1)) THEN "\\" \o CharAt(s, 1) ELSE CharAt(s, 1))
         \o escapeRegex(SubSeq(s, 2, Len(s)))

RECURSIVE PushAbbreviations(_, _, _)
PushAbbreviations(ps, book, a) ==
    IF a > Len(book.abbreviations) THEN ps
    ELSE PushAbbreviations(Append(ps, escapeRegex(book.abbreviations[a])), book, a + 1)

RECURSIVE PushPatterns(_, _)
PushPatterns(ps, b) ==
    IF b > Len(bibleData) THEN ps
    ELSE PushPatterns(PushAbbreviations(Append(ps, escapeRegex(bibleData[b].name)),
                                        bibleData[b], 1), b + 1)

\* the comparator of bookPatterns.sort: (a, b) => b.length - a.length
LongestFirst(a, b) == Len(b) - Len(a)

\* Array.prototype.sort is stable: insert p after every element that does not
\* compare greater than it
RECURSIVE InsertSorted(_, _)
InsertSorted(sorted, p) ==
    IF sorted = <<>> THEN <<p>>
    ELSE IF LongestFirst(Head(sorted), p) <= 0
         THEN <<Head(sorted)>> \o InsertSorted(Tail(sorted), p)
         ELSE <<p>> \o sorted

RECURSIVE SortPatterns(_)
SortPatterns(ps) ==
    IF ps = <<>> THEN <<>>
    ELSE InsertSorted(SortPatterns(SubSeq(ps, 1, Len(ps) - 1)), ps[Len(ps)])

bookPatterns == SortPatterns(PushPatterns(<<>>, 1))

(***************************************************************************)
(* verseRegex, flag i:                                                      *)
(*   (\d+\s+)?(p1|p2|...)\s+(\d+)(?:\s*:\s*(\d+)(?:\s*-\s*(\d+))?)?          *)
(* matched as a backtracking engine matches it: start positions from the    *)
(* left, the optional prefix group first with its greedy runs, then without *)
(* it, and the alternatives in the order of bookPatterns.                   *)
(***************************************************************************)
RECURSIVE DigitRun(_, _)
DigitRun(text, pos) ==
    IF IsDigit(CharAt(text, pos)) THEN 1 + DigitRun(text, pos + 1) ELSE 0

RECURSIVE SpaceRun(_, _)
SpaceRun(text, pos) ==
    IF IsSpace(CharAt(text, pos)) THEN 1 + SpaceRun(text, pos + 1) ELSE 0

\* the literal an escaped pattern matches: \c stands for the character c
RECURSIVE PatternLiteral(_)
PatternLiteral(p) ==
    IF p = "" THEN ""
    ELSE IF CharAt(p, 1) = "\\" /\ Len(p) >= 2
         THEN CharAt(p, 2) \o PatternLiteral(SubSeq(p, 3, Len(p)))
         ELSE CharAt(p, 1) \o PatternLiteral(SubSeq(p, 2, Len(p)))

\* mutant: the alternative is matched without the i flag
MatchAlternative_CaseSensitive(text, pos, p) ==
    IF pos + Len(PatternLiteral(p)) - 1 <= Len(text)
       /\ SubSeq(text, pos, pos + Len(PatternLiteral(p)) - 1) = PatternLiteral(p)
    THEN pos + Len(PatternLiteral(p))
    ELSE 0

\* one alternative at pos, ignoring case: the position after it, or 0
MatchAlternative(text, pos, p) ==
    LET lit == PatternLiteral(p)
    IN  IF pos + Len(lit) - 1 <= Len(text)
           /\ toLowerCase(SubSeq(text, pos, pos + Len(lit) - 1)) = toLowerCase(lit)
        THEN pos + Len(lit)
        ELSE 0

\* mutant: no whitespace allowed around '-'
MatchEndVerse_NoSpace(text, pos) ==
    IF CharAt(text, pos) = "-" /\ DigitRun(text, pos + 1) > 0
    THEN SubSeq(text, pos + 1, pos + DigitRun(text, pos + 1))
    ELSE ""

\* (?:\s*-\s*(\d+))? at pos: the end-verse digits, or ""
MatchEndVerse(text, pos) ==
    LET s1 == SpaceRun(text, pos)
        s2 == SpaceRun(text, pos + s1 + 1)
        d  == DigitRun(text, pos + s1 + 1 + s2)
    IN  IF CharAt(text, pos + s1) = "-" /\ d > 0
        THEN SubSeq(text, pos + s1 + 1 + s2, pos + s1 + s2 + d)
        ELSE ""

\* mutant: \s* in place of \s+ between the book and the chapter
MatchNumbers_OptionalSpace(text, pos) ==
    LET w == SpaceRun(text, pos)
        c == DigitRun(text, pos + w)
    IN  IF c = 0 THEN None
        ELSE Some([chapter  |-> SubSeq(text, pos + w, pos + w + c - 1),
                   verse    |-> "",
                   endVerse |-> ""])

\* \s+(\d+)(?:\s*:\s*(\d+)(?:\s*-\s*(\d+))?)? at pos: the captures, or None
MatchNumbers(text, pos) ==
    LET w  == SpaceRun(text, pos)
        c  == DigitRun(text, pos + w)
        p1 == pos + w + c
        s1 == SpaceRun(text, p1)
        s2 == SpaceRun(text, p1 + s1 + 1)
        v  == DigitRun(text, p1 + s1 + 1 + s2)
        hasVerse == CharAt(text, p1 + s1) = ":" /\ v > 0
    IN  IF w = 0 \/ c = 0 THEN None
        ELSE Some([chapter  |-> SubSeq(text, pos + w, p1 - 1),
                   verse    |-> IF hasVerse
                                THEN SubSeq(text, p1 + s1 + 1 + s2, p1 + s1 + s2 + v)
                                ELSE "",
                   endVerse |-> IF hasVerse
                                THEN MatchEndVerse(text, p1 + s1 + 1 + s2 + v)
                                ELSE ""])

\* the alternation from alternative k on, followed by the numbers
RECURSIVE MatchBook(_, _, _, _)
MatchBook(text, pos, prefix, k) ==
    IF k > Len(bookPatterns) THEN None
    ELSE LET after == MatchAlternative(text, pos, bookPatterns[k])
             nums  == IF after = 0 THEN None ELSE MatchNumbers(text, after)
         IN  IF nums # None
             THEN Some([prefix   |-> prefix,
                        bookName |-> SubSeq(text, pos, after - 1),
                        chapter  |-> nums[1].chapter,
                        verse    |-> nums[1].verse,
                        endVerse |-> nums[1].endVerse])
             ELSE MatchBook(text, pos, prefix, k + 1)

\* (\d+\s+) with d digits and w spaces, w counting down as the engine backtracks
RECURSIVE MatchWithPrefix(_, _, _, _)
MatchWithPrefix(text, start, d, w) ==
    IF d = 0 \/ w = 0 THEN None
    ELSE LET m == MatchBook(text, start + d + w, SubSeq(text, start, start + d + w - 1), 1)
         IN  IF m # None THEN m ELSE MatchWithPrefix(text, start, d, w - 1)

\* a, or b when a is None: the engine's next choice after a failed one
OrElse(a, b) == IF a # None THEN a ELSE b

MatchAt(text, start) ==
    OrElse(MatchWithPrefix(text, start, DigitRun(text, start),
                           SpaceRun(text, start + DigitRun(text, start))),
           MatchBook(text, start, "", 1))

\* mutant: the match is anchored at the start position
MatchFrom_Anchored(text, start) == MatchAt(text, start)

RECURSIVE MatchFrom(_, _)
MatchFrom(text, start) ==
    IF start > Len(text) THEN None
    ELSE OrElse(MatchAt(text, start), MatchFrom(text, start + 1))

\* verseRegex.exec(text): the captures of the leftmost match, or None (null)
verseRegexExec(text) == MatchFrom(text, 1)

(***************************************************************************)
(* BibleReference: [book, bookId, chapter, verse, endVerse, testament,      *)
(* osisId]; verse and endVerse are None when the property is absent.        *)
(***************************************************************************)
\* parseInt's NaN, kept apart from every number a citation can carry
NaN == -1

\* the first entry of bookNameMap.entries() related to bookKey by startsWith
RECURSIVE FallbackLookup(_, _)
FallbackLookup(bookKey, i) ==
    IF i > Len(bookNameMap) THEN None
    ELSE IF startsWith(bookKey, bookNameMap[i][1]) \/ startsWith(bookNameMap[i][1], bookKey)
         THEN Some(bookNameMap[i][2])
         ELSE FallbackLookup(bookKey, i + 1)

\* mutant: the leading-digit prefix is not reattached
BookKey_NoPrefix(prefix, bookName) == toLowerCase(bookName)

\* mutant: the key is not lower-cased
BookKey_NoLowerCase(prefix, bookName) ==
    IF prefix # "" /\ bookName # "" THEN prefix \o bookName ELSE bookName

\* (prefix && bookName) ? (prefix + bookName).toLowerCase() : bookName.toLowerCase()
BookKey(prefix, bookName) ==
    IF prefix # "" /\ bookName # "" THEN toLowerCase(prefix \o bookName)
    ELSE toLowerCase(bookName)

\* mutant: the approximate lookup is tried before the exact one
LookupBook_FallbackFirst(bookKey) ==
    IF FallbackLookup(bookKey, 1) # None THEN FallbackLookup(bookKey, 1)
    ELSE MapGet(bookNameMap, bookKey)

LookupBook(bookKey) ==
    IF MapGet(bookNameMap, bookKey) # None THEN MapGet(bookNameMap, bookKey)
    ELSE FallbackLookup(bookKey, 1)

\* the result object built from the captures m and the book found
BuildReference(m, bookData) ==
    IF bookData = None THEN None
    ELSE Some([book      |-> bookData[1].name,
               bookId    |-> bookData[1].ord,
               chapter   |-> parseInt(m.chapter)[1],
               verse     |-> IF m.verse # "" THEN parseInt(m.verse) ELSE None,
               endVerse  |-> IF m.endVerse # "" THEN parseInt(m.endVerse) ELSE None,
               testament |-> bookData[1].testament,
               osisId    |-> bookData[1].osisId])

ResolveMatch(match) ==
    IF match = None THEN None
    ELSE BuildReference(match[1], LookupBook(BookKey(match[1].prefix, match[1].bookName)))

parseReference(reference) == ResolveMatch(verseRegexExec(trim(reference)))

numberToString(n) == IF n = NaN THEN "NaN" ELSE toString(n)

\* a < b on JS numbers, undefined (None) and NaN comparing false
JsLess(a, b) == a # None /\ b # None /\ a[1] # NaN /\ b[1] # NaN /\ a[1] < b[1]

\* mutant: the end verse is not compared with the verse
isValidReference_NoOrderCheck(reference) ==
    IF reference = None THEN FALSE
    ELSE LET r        == reference[1]
             bookData == MapGet(bookNumberMap, r.bookId)
         IN  IF bookData = None THEN FALSE
             ELSE LET chapters == bookData[1].chapters
                      key      == numberToString(r.chapter)
                  IN  IF key \notin DOMAIN chapters THEN FALSE
                      ELSE LET maxVerse == Some(chapters[key])
                           IN  IF r.verse # None
                                  /\ (JsLess(r.verse, Some(1)) \/ JsLess(maxVerse, r.verse))
                               THEN FALSE
                               ELSE IF r.endVerse # None
                                       /\ (\/ JsLess(r.endVerse, Some(1))
                                           \/ JsLess(maxVerse, r.endVerse))
                                    THEN FALSE
                                    ELSE TRUE

isValidReference(reference) ==
    IF reference = None THEN FALSE
    ELSE LET r        == reference[1]
             bookData == MapGet(bookNumberMap, r.bookId)
         IN  IF bookData = None THEN FALSE
             ELSE LET chapters == bookData[1].chapters
                      key      == numberToString(r.chapter)
                  IN  IF key \notin DOMAIN chapters THEN FALSE
                      ELSE LET maxVerse == Some(chapters[key])
                           IN  IF r.verse # None
                                  /\ (JsLess(r.verse, Some(1)) \/ JsLess(maxVerse, r.verse))
                               THEN FALSE
                               ELSE IF r.endVerse # None
                                       /\ (\/ JsLess(r.endVerse, Some(1))
                                           \/ JsLess(maxVerse, r.endVerse)
                                           \/ JsLess(r.endVerse, r.verse))
                                    THEN FALSE
                                    ELSE TRUE

\* x is falsy as a number: undefined, 0 or NaN
Falsy(x) == x = None \/ x[1] = 0 \/ x[1] = NaN

\* mutant: the chapter is padded to 2 digits
formatVerseId_ShortChapter(ref) ==
    LET chapter == padStart(numberToString(ref.chapter), 2, "0")
        verse   == padStart(numberToString(IF Falsy(ref.verse) THEN 1 ELSE ref.verse[1]), 3, "0")
    IN  ref.bookId \o chapter \o verse

formatVerseId(ref) ==
    LET chapter == padStart(numberToString(ref.chapter), 3, "0")
        verse   == padStart(numberToString(IF Falsy(ref.verse) THEN 1 ELSE ref.verse[1]), 3, "0")
    IN  ref.bookId \o chapter \o verse

formatReference(ref) ==
    IF Falsy(ref.verse) THEN ref.book \o " " \o numberToString(ref.chapter)
    ELSE IF ~Falsy(ref.endVerse)
         THEN ref.book \o " " \o numberToString(ref.chapter) \o ":"
              \o numberToString(ref.verse[1]) \o "-" \o numberToString(ref.endVerse[1])
         ELSE ref.book \o " " \o numberToString(ref.chapter) \o ":"
              \o numberToString(ref.verse[1])

JsParseInt(s) == IF parseInt(s) = None THEN NaN ELSE parseInt(s)[1]

\* String.prototype.substring(start, end) with 0-based start and exclusive end,
\* both clamped to the length of s
substring(s, start, end) ==
    IF start >= Len(s) \/ end <= start THEN ""
    ELSE SubSeq(s, start + 1, IF end > Len(s) THEN Len(s) ELSE end)

\* mutant: the id's length is not checked
parseVerseId_NoLengthCheck(id) ==
    LET bookId   == substring(id, 0, 2)
        bookData == MapGet(bookNumberMap, bookId)
    IN  IF bookData = None THEN None
        ELSE Some([book      |-> bookData[1].name,
                   bookId    |-> bookId,
                   chapter   |-> JsParseInt(substring(id, 2, 5)),
                   verse     |-> Some(JsParseInt(substring(id, 5, 8))),
                   endVerse  |-> None,
                   testament |-> bookData[1].testament,
                   osisId    |-> bookData[1].osisId])

parseVerseId(id) ==
    IF id = "" \/ Len(id) < 8 THEN None
    ELSE LET bookId   == SubSeq(id, 1, 2)
             chapter  == JsParseInt(SubSeq(id, 3, 5))
             verse    == JsParseInt(SubSeq(id, 6, 8))
             bookData == MapGet(bookNumberMap, bookId)
         IN  IF bookData = None THEN None
             ELSE Some([book      |-> bookData[1].name,
                        bookId    |-> bookId,
                        chapter   |-> chapter,
                        verse     |-> Some(verse),
                        endVerse  |-> None,
                        testament |-> bookData[1].testament,
                        osisId    |-> bookData[1].osisId])

parseWordId(id) ==
    IF id = "" \/ Len(id) < 11 THEN None
    ELSE IF parseVerseId(substring(id, 0, 8)) = None THEN None
    ELSE Some([reference    |-> parseVerseId(substring(id, 0, 8))[1],
               wordPosition |-> JsParseInt(substring(id, 8, 11))])

\* Array.from({ length: 999 }, ...): the number of word ids generated
MaxWordPosition == 999

\* mutant: element i of the array carries position i, not i + 1
WordIds_ZeroBased(verseId) ==
    [i \in 1..MaxWordPosition |-> verseId \o padStart(toString(i - 1), 3, "0")]

\* Array.from({ length: 999 }, (_, i) => verseId + (i + 1) padded to 3): the
\* array as a sequence, whose element k is the array's element k - 1
WordIds(verseId) ==
    [i \in 1..MaxWordPosition |-> verseId \o padStart(toString(i), 3, "0")]

\* the verse id for 'bsb_english', the word ids for 'hebrew_ot' and
\* 'greek_nt'; any other table throws
referenceToDbId(ref, table) ==
    IF table = "bsb_english" THEN [threw |-> FALSE, value |-> formatVerseId(ref)]
    ELSE IF table \in {"hebrew_ot", "greek_nt"}
         THEN [threw |-> FALSE, value |-> WordIds(formatVerseId(ref))]
         ELSE [threw |-> TRUE, value |-> None]

\* [book.name, ...book.abbreviations], or [] for an unknown ordinal
getBookAliases(bookId) ==
    IF MapGet(bookNumberMap, bookId) = None THEN <<>>
    ELSE <<MapGet(bookNumberMap, bookId)[1].name>>
         \o MapGet(bookNumberMap, bookId)[1].abbreviations

(***************************************************************************)
(* Storage: the english_tokens table of bible.db, as the import script      *)
(* fills it (one row per word; id BBCCCVVVWWW gives book, chapter, verse    *)
(* and word position; skip_space_after and exclude are 0 or 1).  A fragment *)
(* with a verse that holds an excluded token, a verse whose tokens are all  *)
(* excluded, rows stored out of word order, and catalog verses (John 3:18)  *)
(* with no row at all.                                                      *)
(***************************************************************************)
Row(b, c, v, w, t, skip, ex) ==
    [book_num |-> b, chapter |-> c, verse |-> v, word_position |-> w,
     text |-> t, skip_space_after |-> skip, exclude |-> ex]

english_tokens ==
    << Row("01", 1, 1, 1, "In", 0, 0),
       Row("01", 1, 1, 2, "the", 0, 0),
       Row("01", 1, 1, 3, "-", 0, 1),
       Row("01", 1, 1, 4, "beginning", 1, 0),
       Row("01", 1, 1, 5, ".", 1, 0),
       Row("01", 1, 2, 1, "-", 0, 1),
       Row("01", 1, 2, 2, "...", 0, 1),
       Row("43", 3, 16, 3, "loved", 1, 0),
       Row("43", 3, 16, 1, "For", 0, 0),
       Row("43", 3, 16, 4, ".", 0, 0),
       Row("43", 3, 16, 2, "God", 0, 0),
       Row("43", 3, 17, 1, "He", 0, 0),
       Row("43", 3, 17, 2, "came", 0, 0),
       Row("43", 3, 17, 3, "vvv", 1, 1),
       Row("62", 1, 1, 1, "That", 0, 0),
       Row("62", 1, 1, 2, "which", 1, 0) >>

\* ORDER BY word_position over the rows whose indices are in idx
RECURSIVE OrderByWordPosition(_)
OrderByWordPosition(idx) ==
    IF idx = {} THEN <<>>
    ELSE LET first == CHOOSE i \in idx : \A j \in idx :
                          english_tokens[i].word_position <= english_tokens[j].word_position
         IN  <<[text |-> english_tokens[first].text,
                skip_space_after |-> english_tokens[first].skip_space_after]>>
             \o OrderByWordPosition(idx \ {first})

\* SELECT text, skip_space_after FROM english_tokens
\* WHERE book_num = ? AND chapter = ? AND verse = ? ORDER BY word_position
SelectVerseTokens(bookId, chapter, verse) ==
    OrderByWordPosition({i \in 1..Len(english_tokens) :
        /\ english_tokens[i].book_num = bookId
        /\ english_tokens[i].chapter = chapter
        /\ english_tokens[i].verse = verse})

\* mutant: the tokens of the whole chapter, not of the one verse
SelectIncludedTokens_WholeChapter(bookId, chapter, verse) ==
    OrderByWordPosition({i \in 1..Len(english_tokens) :
        /\ english_tokens[i].book_num = bookId
        /\ english_tokens[i].chapter = chapter
        /\ english_tokens[i].exclude = 0})

\* the same query with AND exclude = 0
SelectIncludedTokens(bookId, chapter, verse) ==
    OrderByWordPosition({i \in 1..Len(english_tokens) :
        /\ english_tokens[i].book_num = bookId
        /\ english_tokens[i].chapter = chapter
        /\ english_tokens[i].verse = verse
        /\ english_tokens[i].exclude = 0})

RECURSIVE Ascending(_)
Ascending(S) ==
    IF S = {} THEN <<>>
    ELSE LET least == CHOOSE x \in S : \A y \in S : x <= y
         IN  <<least>> \o Ascending(S \ {least})

\* SELECT DISTINCT verse FROM english_tokens
\* WHERE book_num = ? AND chapter = ? AND verse >= ? AND verse <= ? ORDER BY verse
SelectDistinctVerses(bookId, chapter, startVerse, endVerse) ==
    Ascending({english_tokens[i].verse : i \in {j \in 1..Len(english_tokens) :
        /\ english_tokens[j].book_num = bookId
        /\ english_tokens[j].chapter = chapter
        /\ english_tokens[j].verse >= startVerse
        /\ english_tokens[j].verse <= endVerse}})

\* tokens.reduce((text, token, index) => ..., ""), from token index on (1-based)
RECURSIVE ReduceTokens(_, _, _)
ReduceTokens(tokens, index, text) ==
    IF index > Len(tokens) THEN text
    ELSE LET token     == tokens[index]
             skipSpace == token.skip_space_after # 0
             space     == IF skipSpace THEN "" ELSE " "
         IN  ReduceTokens(tokens, index + 1,
                 text \o token.text \o (IF index - 1 < Len(tokens) - 1 THEN space ELSE ""))

\* mutant: the space is appended after the last token too
RECURSIVE ReduceTokens_EverySpace(_, _, _)
ReduceTokens_EverySpace(tokens, index, text) ==
    IF index > Len(tokens) THEN text
    ELSE ReduceTokens_EverySpace(tokens, index + 1,
             text \o tokens[index].text
                  \o (IF tokens[index].skip_space_after # 0 THEN "" ELSE " "))

assembleTextFromTokens_EverySpace(tokens) == ReduceTokens_EverySpace(tokens, 1, "")

assembleTextFromTokens(tokens) == ReduceTokens(tokens, 1, "")

(***************************************************************************)
(* database.ts: the module-level connection db (NULL or OPEN) and the       *)
(* functions over it.  A function that can throw returns a record: threw,   *)
(* the connection after the call, the storage queries it issued, its value. *)
(***************************************************************************)
NULL == "null"

OPEN == "open"

\* initDatabase(): [threw, db]
initDatabase(db, dbFileExists) ==
    IF db # NULL THEN [threw |-> FALSE, db |-> db]
    ELSE IF ~dbFileExists THEN [threw |-> TRUE, db |-> db]
    ELSE [threw |-> FALSE, db |-> OPEN]

Query(bookId, chapter, verse) == [book_num |-> bookId, chapter |-> chapter, verse |-> verse]

\* if (!db) initDatabase();
EnsureDatabase(db, dbFileExists) ==
    IF db = NULL THEN initDatabase(db, dbFileExists) ELSE [threw |-> FALSE, db |-> db]

TokensText(tokens) ==
    IF Len(tokens) = 0 THEN None ELSE Some(assembleTextFromTokens(tokens))

\* getEnglishText after its first line, init being what that line left
GetEnglishTextBody(reference, init) ==
    IF init.threw
    THEN [threw |-> TRUE, db |-> init.db, queries |-> <<>>, value |-> None]
    ELSE IF reference.bookId = "" \/ reference.chapter = 0 \/ reference.chapter = NaN
            \/ Falsy(reference.verse)
    THEN [threw |-> FALSE, db |-> init.db, queries |-> <<>>, value |-> None]
    ELSE [threw   |-> FALSE,
          db      |-> init.db,
          queries |-> <<Query(reference.bookId, reference.chapter, reference.verse[1])>>,
          value   |-> TokensText(SelectVerseTokens(reference.bookId, reference.chapter,
                                                   reference.verse[1]))]

\* getEnglishText(reference): value is None for null
getEnglishText(reference, db, dbFileExists) ==
    GetEnglishTextBody(reference, EnsureDatabase(db, dbFileExists))

\* verses.map(verseRow => ...) from row i on
RECURSIVE MapVerses(_, _, _)
MapVerses(reference, verses, i) ==
    IF i > Len(verses) THEN <<>>
    ELSE <<[text      |-> assembleTextFromTokens(
                              SelectIncludedTokens(reference.bookId, reference.chapter, verses[i])),
            verse     |-> verses[i],
            reference |-> reference.book \o " " \o numberToString(reference.chapter) \o ":"
                          \o numberToString(verses[i])]>>
         \o MapVerses(reference, verses, i + 1)

GetPassageBody(reference, init, startVerse) ==
    IF init.threw
    THEN [threw |-> TRUE, db |-> init.db, value |-> <<>>]
    ELSE [threw |-> FALSE,
          db    |-> init.db,
          value |-> MapVerses(reference,
                        SelectDistinctVerses(reference.bookId, reference.chapter, startVerse,
                            IF Falsy(reference.endVerse) THEN startVerse
                            ELSE reference.endVerse[1]), 1)]

\* getPassage(reference): value is the array of verse objects
getPassage(reference, db, dbFileExists) ==
    GetPassageBody(reference, EnsureDatabase(db, dbFileExists),
                   IF Falsy(reference.verse) THEN 1 ELSE reference.verse[1])

(***************************************************************************)
(* searchText (database.ts) and the searchText tool handler (server.ts)     *)
(***************************************************************************)
\* create-db.ts: bookNames, the book_name column written for a book_num
bookNames ==
    ("01" :> "Genesis" @@ "19" :> "Psalms" @@ "43" :> "John" @@ "62" :> "1 John"
     @@ "64" :> "3 John")

\* text LIKE '%query%': SQLite's LIKE ignores the case of ASCII letters
Like(text, query) ==
    \E i \in 1..(Len(text) - Len(query) + 1) :
        toLowerCase(SubSeq(text, i, i + Len(query) - 1)) = toLowerCase(query)

\* a < b on TEXT values made of digits (book_num), character by character
RECURSIVE TextLess(_, _)
TextLess(a, b) ==
    IF b = "" THEN FALSE
    ELSE IF a = "" THEN TRUE
    ELSE IF CharAt(a, 1) = CharAt(b, 1) THEN TextLess(SubSeq(a, 2, Len(a)), SubSeq(b, 2, Len(b)))
    ELSE DigitValue(CharAt(a, 1)) < DigitValue(CharAt(b, 1))

\* ORDER BY book_num, chapter, verse
VerseBefore(a, b) ==
    \/ TextLess(a.book_num, b.book_num)
    \/ a.book_num = b.book_num /\ a.chapter < b.chapter
    \/ a.book_num = b.book_num /\ a.chapter = b.chapter /\ a.verse < b.verse

RECURSIVE OrderVerses(_)
OrderVerses(S) ==
    IF S = {} THEN <<>>
    ELSE <<CHOOSE x \in S : \A y \in S \ {x} : VerseBefore(x, y)>>
         \o OrderVerses(S \ {CHOOSE x \in S : \A y \in S \ {x} : VerseBefore(x, y)})

\* the WHERE clause of findVersesSql for one row; testament and book are None
\* when the argument is undefined
SearchCondition(row, query, testament, book) ==
    /\ Like(row.text, query)
    /\ testament = Some("OT") => JsParseInt(row.book_num) <= 39
    /\ testament = Some("NT") => JsParseInt(row.book_num) >= 40
    /\ book # None => row.book_num = book[1]
    /\ row.exclude = 0

\* SELECT DISTINCT book_num, book_name, chapter, verse ... before ORDER BY
MatchingVerses(query, testament, book) ==
    {[book_num  |-> english_tokens[i].book_num,
      book_name |-> bookNames[english_tokens[i].book_num],
      chapter   |-> english_tokens[i].chapter,
      verse     |-> english_tokens[i].verse] :
        i \in {j \in 1..Len(english_tokens) :
                  SearchCondition(english_tokens[j], query, testament, book)}}

\* LIMIT n
SqlLimit(rows, n) == SubSeq(rows, 1, IF n < Len(rows) THEN n ELSE Len(rows))

\* matchingVerses.map(verse => ...) from row i on
RECURSIVE MapMatches(_, _)
MapMatches(verses, i) ==
    IF i > Len(verses) THEN <<>>
    ELSE <<[text      |-> assembleTextFromTokens(
                              SelectIncludedTokens(verses[i].book_num, verses[i].chapter,
                                                   verses[i].verse)),
            reference |-> verses[i].book_name \o " " \o numberToString(verses[i].chapter)
                          \o ":" \o numberToString(verses[i].verse),
            book      |-> verses[i].book_name,
            chapter   |-> verses[i].chapter,
            verse     |-> verses[i].verse]>>
         \o MapMatches(verses, i + 1)

SearchTextBody(query, testament, book, limit, init) ==
    IF init.threw
    THEN [threw |-> TRUE, db |-> init.db, value |-> <<>>]
    ELSE [threw |-> FALSE,
          db    |-> init.db,
          value |-> MapMatches(SqlLimit(OrderVerses(MatchingVerses(query, testament, book)),
                                        limit), 1)]

\* searchText(query, testament, book, limit): the function declares four
\* parameters
searchText(query, testament, book, limit, db, dbFileExists) ==
    SearchTextBody(query, testament, book, limit, EnsureDatabase(db, dbFileExists))

\* results.map(result => ({ type: "text", text, reference }))
RECURSIVE MapResults(_, _)
MapResults(results, i) ==
    IF i > Len(results) THEN <<>>
    ELSE <<[type |-> "text", text |-> results[i].text, reference |-> results[i].reference]>>
         \o MapResults(results, i + 1)

SearchToolContent(got) ==
    IF got.threw THEN [threw |-> TRUE, db |-> got.db, content |-> None]
    ELSE [threw |-> FALSE, db |-> got.db, content |-> Some(MapResults(got.value, 1))]

\* the handler calls searchText(query, undefined, undefined, limit, offset);
\* the fifth argument has no parameter to receive it
searchTextTool(query, limit, offset, db, dbFileExists) ==
    SearchToolContent(searchText(query, None, None, limit, db, dbFileExists))

(***************************************************************************)
(* server.ts: the getEnglishText tool handler                               *)
(***************************************************************************)
InvalidReferenceText(reference) ==
    "Invalid Bible reference: \"" \o reference
    \o "\". Please use a format like \"John 3:16\" or \"Genesis 1:1\"."

NoTextFoundText(reference) == "No text found for reference: \"" \o reference \o "\"."

\* the handler from "const text = getEnglishText(parsedReference)" on
ToolContent(reference, got) ==
    IF got.threw
    THEN [threw |-> TRUE, db |-> got.db, queries |-> got.queries, content |-> None]
    ELSE IF got.value = None \/ got.value = Some("")
    THEN [threw |-> FALSE, db |-> got.db, queries |-> got.queries,
          content |-> Some(NoTextFoundText(reference))]
    ELSE [threw |-> FALSE, db |-> got.db, queries |-> got.queries, content |-> got.value]

ToolAfterParse(reference, parsedReference, db, dbFileExists) ==
    IF parsedReference = None
    THEN [threw |-> FALSE, db |-> db, queries |-> <<>>,
          content |-> Some(InvalidReferenceText(reference))]
    ELSE ToolContent(reference, getEnglishText(parsedReference[1], db, dbFileExists))

\* the handler: content is the text of the single content item, None when it threw
getEnglishTextTool(reference, db, dbFileExists) ==
    ToolAfterParse(reference, parseReference(reference), db, dbFileExists)

(***************************************************************************)
(* State                                                                    *)
(***************************************************************************)
VARIABLES
    dbFileExists,   \* bible.db is on disk
    db,             \* database.ts: let db (NULL or OPEN)
    reference,      \* the citation of the last call (tool call or getPassage)
    content,        \* a tool call's result text (None: none was returned)
    threw,          \* whether the call threw
    queries,        \* the verse-token queries a tool call issued
    passage,        \* a getPassage call's result (None: the last call was not one)
    pc,             \* the operation applied last
    cite,           \* how a citation input was put together (None: free text)
    arg,            \* the input of a library function
    result,         \* its result
    \* proxy-server.ts
    listening,      \* server.listen's callback has run
    mcpClient,      \* let mcpClient (None: null, else the Client of an attempt)
    mcpTransport,   \* let mcpTransport (None: null, else its transport)
    attempts,       \* the state of every Client/transport pair created so far
    onclose,        \* the transports whose onclose is the proxy's handler
    sockets,        \* the browser sockets: state and the status messages sent
    requests,       \* the messages received: the handler's position and its sends
    \* web-client/script.js
    ws,             \* the readyState of let ws
    isConnected,    \* let isConnected
    currentQuery,   \* let currentQuery
    offset,         \* let offset
    disabled,       \* the disabled property of the three search buttons
    errorMessage,   \* what displayError showed last (None: hidden)
    outbox          \* the requests ws.send was given: their number and the last

proxyVars == <<listening, mcpClient, mcpTransport, attempts, onclose, sockets,
               requests>>

clientVars == <<ws, isConnected, currentQuery, offset, disabled, errorMessage,
                outbox>>

webVars == <<proxyVars, clientVars>>

vars == <<dbFileExists, db, reference, content, threw, queries, passage,
          pc, cite, arg, result, webVars>>

serverVars == <<dbFileExists, db, reference, content, threw, queries, passage>>

libVars == <<cite, arg, result>>

ServerIdle ==
    /\ db = NULL
    /\ reference = ""
    /\ content = None
    /\ threw = FALSE
    /\ queries = <<>>
    /\ passage = None

LibIdle ==
    /\ cite = None
    /\ arg = None
    /\ result = None

\* the browser sockets the proxy may be given
Sockets == {1, 2}

\* the proxy has not started
ProxyIdle ==
    /\ listening = FALSE
    /\ mcpClient = None
    /\ mcpTransport = None
    /\ attempts = <<>>
    /\ onclose = {}
    /\ sockets = [c \in Sockets |-> [state |-> "new", statuses |-> <<>>]]
    /\ requests = [received |-> 0, pending |-> {}, last |-> None]

\* the page has not been loaded
ClientIdle ==
    /\ ws = "none"
    /\ isConnected = FALSE
    /\ currentQuery = ""
    /\ offset = 0
    /\ disabled = [searchButton |-> TRUE, prevButton |-> TRUE, nextButton |-> TRUE]
    /\ errorMessage = None
    /\ outbox = [count |-> 0, last |-> None]

WebIdle == ProxyIdle /\ ClientIdle

(***************************************************************************)
(* Spec: the server process.  Tool calls arrive one at a time (the handler  *)
(* has no await, so it runs to completion); the import script may create    *)
(* bible.db; closeDatabase may be called between calls.                     *)
(***************************************************************************)
RequestTexts ==
    {"John 3:16", "Gen 1:1", "Genesis 1:2", "1 John 1:1", "jn 3:17", "John 3:18",
     "John 99:99", "John 3:37", "Gen 1:0", "John 3", "John 3:16-17", "Gen 1:1-2",
     "Invalid 99:99", "John", "John abc", "John3:16", "Gn 1:1", "",
     "John 3:1-36", "John 3:17-16"}

Init ==
    /\ dbFileExists \in BOOLEAN
    /\ ServerIdle
    /\ LibIdle
    /\ pc = "idle"
    /\ WebIdle

ToolCallDone(text, r) ==
    /\ reference' = text
    /\ content' = r.content
    /\ threw' = r.threw
    /\ queries' = r.queries
    /\ db' = r.db
    /\ passage' = None
    /\ pc' = "getEnglishText"
    /\ UNCHANGED webVars
    /\ UNCHANGED <<dbFileExists, cite, arg, result>>

CallGetEnglishText ==
    \E text \in RequestTexts : ToolCallDone(text, getEnglishTextTool(text, db, dbFileExists))

PassageCallDone(text, r) ==
    /\ reference' = text
    /\ content' = None
    /\ threw' = r.threw
    /\ queries' = <<>>
    /\ passage' = Some(r.value)
    /\ db' = r.db
    /\ pc' = "getPassage"
    /\ UNCHANGED webVars
    /\ UNCHANGED <<dbFileExists, cite, arg, result>>

PassageCall(text, parsed) ==
    /\ parsed # None
    /\ PassageCallDone(text, getPassage(parsed[1], db, dbFileExists))

CallGetPassage ==
    \E text \in RequestTexts : PassageCall(text, parseReference(text))

CreateDatabaseFile ==
    /\ ~dbFileExists
    /\ dbFileExists' = TRUE
    /\ UNCHANGED <<db, reference, content, threw, queries, passage,
                   pc, cite, arg, result, webVars>>

closeDatabase ==
    /\ db # NULL
    /\ db' = NULL
    /\ UNCHANGED <<dbFileExists, reference, content, threw, queries, passage,
                   pc, cite, arg, result, webVars>>

Next ==
    \/ CallGetEnglishText
    \/ CallGetPassage
    \/ CreateDatabaseFile
    \/ closeDatabase

Spec == Init /\ [][Next]_vars

(***************************************************************************)
(* SpecAsm: assembleTextFromTokens over token sequences                     *)
(***************************************************************************)
MaxTokens == 3

TokenTexts == {"In", "the", ",", "beginning."}

Tokens == [text : TokenTexts, skip_space_after : {0, 1}]

TokenSeqs == UNION {[1..n -> Tokens] : n \in 0..MaxTokens}

InitAsm ==
    /\ dbFileExists = TRUE
    /\ ServerIdle
    /\ cite = None
    /\ arg \in TokenSeqs
    /\ result = None
    /\ pc = "input"
    /\ WebIdle

Assemble ==
    /\ pc = "input"
    /\ result' = Some(assembleTextFromTokens(arg))
    /\ pc' = "assembled"
    /\ UNCHANGED webVars
    /\ UNCHANGED <<arg, cite>>
    /\ UNCHANGED serverVars

NextAsm == Assemble

SpecAsm == InitAsm /\ [][NextAsm]_vars

(***************************************************************************)
(* SpecParse: parseReference over citation texts "<alias> C:V" for every    *)
(* alias and every verse of the catalog, and over free texts                *)
(***************************************************************************)
Books == {bibleData[b] : b \in 1..Len(bibleData)}

Aliases(book) == {book.name} \cup {book.abbreviations[a] : a \in 1..Len(book.abbreviations)}

ChapterNumbers(book) == {JsParseInt(k) : k \in DOMAIN book.chapters}

Citations ==
    UNION {UNION {UNION {{[alias |-> a, ord |-> book.ord, chapter |-> c, verse |-> v] :
                            v \in 1..book.chapters[toString(c)]} :
                         c \in ChapterNumbers(book)} :
                  a \in Aliases(book)} :
           book \in Books}

CitationText(c) == c.alias \o " " \o toString(c.chapter) \o ":" \o toString(c.verse)

FreeTexts ==
    RequestTexts \cup
    {"Johnny 3:16", "3:16", "John  3 : 16 - 18", "  1 john 1:1  ", "GEN 1:1", "Gn. 2:3",
     "Song 1:1", "1 Gen 1:1", "John 3:", "1  John 1:1", "John\t3:16", "12", "Ps 119x",
     "1 T 1:1", "1 t 1:5", "3 T 1:1", "1 Jud 1:1", "16 John 3:16", "2 John 1:1",
     "John 3:18-16", "John 3:16-16", "John 3:16-0", "John 3:0-5", "John 1000:1", "John 3:1000", "Ps 119:176", "John 0:0"}

InitParse ==
    /\ dbFileExists = TRUE
    /\ ServerIdle
    /\ \/ \E c \in Citations : cite = Some(c) /\ arg = CitationText(c)
       \/ cite = None /\ arg \in FreeTexts
    /\ result = None
    /\ pc = "input"
    /\ WebIdle

Parse ==
    /\ pc = "input"
    /\ result' = parseReference(arg)
    /\ pc' = "parseReference"
    /\ UNCHANGED webVars
    /\ UNCHANGED <<arg, cite>>
    /\ UNCHANGED serverVars

\* formatReference applied to the reference parseReference returned
FormatParsed ==
    /\ pc = "parseReference"
    /\ result # None
    /\ result' = formatReference(result[1])
    /\ pc' = "formatReference"
    /\ UNCHANGED webVars
    /\ UNCHANGED <<arg, cite>>
    /\ UNCHANGED serverVars

\* formatVerseId applied to the reference parseReference returned
FormatParsedVerseId ==
    /\ pc = "parseReference"
    /\ result # None
    /\ result' = formatVerseId(result[1])
    /\ pc' = "formatVerseId"
    /\ UNCHANGED webVars
    /\ UNCHANGED <<arg, cite>>
    /\ UNCHANGED serverVars

Casings == {"upper", "lower", "mixed", "swapped"}

SwapChar(c) == IF LowerChar(c) # c THEN LowerChar(c) ELSE UpperChar(c)

\* text with every letter upper-cased at odd positions and lower-cased at even
RECURSIVE MixCase(_, _)
MixCase(text, i) ==
    IF i > Len(text) THEN ""
    ELSE (IF i % 2 = 1 THEN UpperChar(CharAt(text, i)) ELSE LowerChar(CharAt(text, i)))
         \o MixCase(text, i + 1)

RECURSIVE SwapCase(_)
SwapCase(text) ==
    IF text = "" THEN "" ELSE SwapChar(CharAt(text, 1)) \o SwapCase(SubSeq(text, 2, Len(text)))

Recase(text, casing) ==
    CASE casing = "upper" -> toUpperCase(text)
      [] casing = "lower" -> toLowerCase(text)
      [] casing = "mixed" -> MixCase(text, 1)
      [] OTHER -> SwapCase(text)

\* parseReference applied to a re-casing of the input text
ParseRecased ==
    /\ pc = "input"
    /\ \E casing \in Casings :
           result' = [casing |-> casing, text |-> Recase(arg, casing),
                      parsed |-> parseReference(Recase(arg, casing))]
    /\ pc' = "parseReference(recased)"
    /\ UNCHANGED webVars
    /\ UNCHANGED <<arg, cite>>
    /\ UNCHANGED serverVars

\* the citation written with its alias stripped of periods
StrippedText(c) ==
    stripPeriods(c.alias) \o " " \o toString(c.chapter) \o ":" \o toString(c.verse)

\* parseReference applied to the period-stripped writing of a citation whose
\* alias is a registered abbreviation with a period
ParseStripped ==
    /\ pc = "input"
    /\ cite # None
    /\ stripPeriods(cite[1].alias) # cite[1].alias
    /\ result' = parseReference(StrippedText(cite[1]))
    /\ pc' = "parseReference(stripped)"
    /\ UNCHANGED webVars
    /\ UNCHANGED <<arg, cite>>
    /\ UNCHANGED serverVars

\* words put before a citation: no digit, no registered name or abbreviation
LeadingWords == {"", "see ", "as in ", "("}

\* text put after a citation, beginning with a letter
TrailingTexts == {"", "abc", "x:9", "John 1:1"}

\* parseReference applied to the input text with words around it
ParseEmbedded ==
    /\ pc = "input"
    /\ cite # None => cite[1].verse = 1
    /\ \E before \in LeadingWords : \E after \in TrailingTexts :
           result' = [text |-> before \o arg \o after,
                      parsed |-> parseReference(before \o arg \o after)]
    /\ pc' = "parseReference(embedded)"
    /\ UNCHANGED webVars
    /\ UNCHANGED <<arg, cite>>
    /\ UNCHANGED serverVars

NextParse ==
    \/ Parse
    \/ ParseEmbedded
    \/ ParseRecased
    \/ ParseStripped
    \/ FormatParsed
    \/ FormatParsedVerseId

SpecParse == InitParse /\ [][NextParse]_vars

(***************************************************************************)
(* SpecRef: isValidReference, formatVerseId and parseVerseId over           *)
(* references inside and just outside the catalog's bounds                  *)
(***************************************************************************)
MaxVerses == UNION {{book.chapters[k] : k \in DOMAIN book.chapters} : book \in Books}

VerseCandidates == {Some(v) : v \in {0, 1} \cup MaxVerses \cup {m + 1 : m \in MaxVerses}}
                   \cup {None}

EndVerseCandidates == {Some(v) : v \in {0, 1, 2, 16, 36, 37, 176, 177}} \cup {None}

ChapterCandidates ==
    {0} \cup UNION {ChapterNumbers(book) \cup {c + 1 : c \in ChapterNumbers(book)} :
                    book \in Books}

UnknownBook ==
    [ord |-> "99", name |-> "Unknown", testament |-> "NT", osisId |-> "Unk",
     abbreviations |-> <<>>, chapters |-> ("1" :> 1)]

References ==
    {[book |-> book.name, bookId |-> book.ord, chapter |-> c, verse |-> v, endVerse |-> e,
      testament |-> book.testament, osisId |-> book.osisId] :
        book \in Books \cup {UnknownBook}, c \in ChapterCandidates,
        v \in VerseCandidates, e \in EndVerseCandidates}

InitRef ==
    /\ dbFileExists = TRUE
    /\ ServerIdle
    /\ cite = None
    /\ \E r \in References : arg = Some(r)
    /\ result = None
    /\ pc = "input"
    /\ WebIdle

Validate ==
    /\ pc = "input"
    /\ result' = isValidReference(arg)
    /\ pc' = "isValidReference"
    /\ UNCHANGED webVars
    /\ UNCHANGED <<arg, cite>>
    /\ UNCHANGED serverVars

FormatVerseId ==
    /\ pc = "input"
    /\ result' = formatVerseId(arg[1])
    /\ pc' = "formatVerseId"
    /\ UNCHANGED webVars
    /\ UNCHANGED <<arg, cite>>
    /\ UNCHANGED serverVars

ParseVerseId ==
    /\ pc = "formatVerseId"
    /\ result' = parseVerseId(result)
    /\ pc' = "parseVerseId"
    /\ UNCHANGED webVars
    /\ UNCHANGED <<arg, cite>>
    /\ UNCHANGED serverVars

NextRef ==
    \/ Validate
    \/ FormatVerseId
    \/ ParseVerseId

SpecRef == InitRef /\ [][NextRef]_vars

(***************************************************************************)
(* SpecId: parseVerseId, getBookAliases and isValidReference over id texts  *)
(* of every length up to 11 and over known and unknown book ordinals        *)
(***************************************************************************)
FullIds == {"43003016001", "01001001002", "19119176010", "99001001001",
            "00001001001", "4a003016001", "64001015999", " 1001001001"}

IdTexts == {substring(id, 0, n) : id \in FullIds, n \in 0..11}

\* the reference { bookId } chapter 1 verse 1 of a book known only by ordinal
OrdinalReference(bookId) ==
    [book |-> "", bookId |-> bookId, chapter |-> 1, verse |-> Some(1), endVerse |-> None,
     testament |-> "", osisId |-> ""]

InitId ==
    /\ dbFileExists = TRUE
    /\ ServerIdle
    /\ cite = None
    /\ arg \in IdTexts
    /\ result = None
    /\ pc = "input"
    /\ WebIdle

IdParseVerseId ==
    /\ pc = "input"
    /\ result' = parseVerseId(arg)
    /\ pc' = "parseVerseId(id)"
    /\ UNCHANGED webVars
    /\ UNCHANGED <<arg, cite>>
    /\ UNCHANGED serverVars

IdGetBookAliases ==
    /\ pc = "input"
    /\ result' = getBookAliases(arg)
    /\ pc' = "getBookAliases(id)"
    /\ UNCHANGED webVars
    /\ UNCHANGED <<arg, cite>>
    /\ UNCHANGED serverVars

IdIsValidReference ==
    /\ pc = "input"
    /\ result' = isValidReference(Some(OrdinalReference(arg)))
    /\ pc' = "isValidReference(id)"
    /\ UNCHANGED webVars
    /\ UNCHANGED <<arg, cite>>
    /\ UNCHANGED serverVars

NextId ==
    \/ IdParseVerseId
    \/ IdGetBookAliases
    \/ IdIsValidReference

SpecId == InitId /\ [][NextId]_vars

(***************************************************************************)
(* SpecWord: referenceToDbId and parseWordId over the valid references that *)
(* carry a verse.  An input names the table, the word position whose id is  *)
(* taken from the array, and the number of leading characters of that id    *)
(* handed to parseWordId.                                                   *)
(***************************************************************************)
WordReferences ==
    {r \in References :
        r.verse # None /\ r.endVerse \in {None, r.verse} /\ isValidReference(Some(r))}

Tables == {"bsb_english", "hebrew_ot", "greek_nt", "kjv"}

WordPositions == {1, 9, 10, 100, MaxWordPosition}

IdCuts == {0, 8, 10, 11}

InitWord ==
    /\ dbFileExists = TRUE
    /\ ServerIdle
    /\ \E r \in WordReferences : arg = Some(r)
    /\ \E t \in Tables : \E p \in WordPositions : \E n \in IdCuts :
           cite = Some([table |-> t, position |-> p, cut |-> n, id |-> ""])
    /\ result = None
    /\ pc = "input"
    /\ WebIdle

\* the id a caller takes from what referenceToDbId returned
TakeId(out, table, position) ==
    IF table = "bsb_english" THEN out.value ELSE out.value[position]

ReferenceToDbIdDone(out) ==
    /\ ~out.threw
    /\ cite' = Some([cite[1] EXCEPT
                    !.id = substring(TakeId(out, cite[1].table, cite[1].position),
                                     0, cite[1].cut)])
    /\ pc' = "referenceToDbId"
    /\ UNCHANGED webVars
    /\ UNCHANGED <<arg, result>>
    /\ UNCHANGED serverVars

ReferenceToDbId ==
    /\ pc = "input"
    /\ ReferenceToDbIdDone(referenceToDbId(arg[1], cite[1].table))

ReferenceToDbIdThrows ==
    /\ pc = "input"
    /\ referenceToDbId(arg[1], cite[1].table).threw
    /\ pc' = "referenceToDbId threw"
    /\ UNCHANGED webVars
    /\ UNCHANGED <<arg, cite, result>>
    /\ UNCHANGED serverVars

ParseWordId ==
    /\ pc = "referenceToDbId"
    /\ result' = parseWordId(cite[1].id)
    /\ pc' = "parseWordId"
    /\ UNCHANGED webVars
    /\ UNCHANGED <<arg, cite>>
    /\ UNCHANGED serverVars

NextWord ==
    \/ ReferenceToDbId
    \/ ReferenceToDbIdThrows
    \/ ParseWordId

SpecWord == InitWord /\ [][NextWord]_vars

(***************************************************************************)
(* SpecCite: parseReference over citations "<alias> C", "<alias> C:V" and   *)
(* "<alias> C:V-E" with the numbers and the whitespace around ':' and '-'   *)
(* varied, inside and outside the catalog's bounds                          *)
(***************************************************************************)
AllAliases == UNION {Aliases(book) : book \in Books}

WrittenChapters == {0, 3, 119, 1000}

WrittenVerses == {0, 16, 176}

WrittenEndVerses == {0, 18}

ColonTexts == {":", " :", ": ", " :  ", "\t:\t"}

DashTexts == {"-", " -", "- ", "  - "}

ChapterForms ==
    {[alias |-> a, chapter |-> c, verse |-> None, endVerse |-> None,
      colon |-> "", dash |-> ""] : a \in AllAliases, c \in WrittenChapters}

VerseForms ==
    {[alias |-> a, chapter |-> c, verse |-> Some(v), endVerse |-> None,
      colon |-> k, dash |-> ""] :
        a \in AllAliases, c \in WrittenChapters, v \in WrittenVerses, k \in ColonTexts}

RangeForms ==
    {[alias |-> a, chapter |-> c, verse |-> Some(v), endVerse |-> Some(e),
      colon |-> k, dash |-> d] :
        a \in AllAliases, c \in WrittenChapters, v \in WrittenVerses,
        e \in WrittenEndVerses, k \in ColonTexts, d \in DashTexts}

WrittenForms == ChapterForms \cup VerseForms \cup RangeForms

FormText(f) ==
    f.alias \o " " \o toString(f.chapter)
    \o (IF f.verse = None THEN "" ELSE f.colon \o toString(f.verse[1]))
    \o (IF f.endVerse = None THEN "" ELSE f.dash \o toString(f.endVerse[1]))

InitCite ==
    /\ dbFileExists = TRUE
    /\ ServerIdle
    /\ \E f \in WrittenForms : cite = Some(f) /\ arg = FormText(f)
    /\ result = None
    /\ pc = "input"
    /\ WebIdle

ParseForm ==
    /\ pc = "input"
    /\ result' = parseReference(arg)
    /\ pc' = "parseReference(form)"
    /\ UNCHANGED webVars
    /\ UNCHANGED <<arg, cite>>
    /\ UNCHANGED serverVars

NextCite == ParseForm

SpecCite == InitCite /\ [][NextCite]_vars

(***************************************************************************)
(* SpecSearch: the web client's search and paging buttons driving the       *)
(* searchText tool.  arg is the client's state (currentQuery, limit,        *)
(* offset); result is the content of the last tool result.                  *)
(***************************************************************************)
MaxOffset == 6

ClientLimits == {1, 2, 3}

SearchQueries == {"e", "E", "the", "o", "God", "h", "a", ".", "in", "zzz"}

InitSearch ==
    /\ dbFileExists = TRUE
    /\ ServerIdle
    /\ cite = None
    /\ \E l \in ClientLimits : arg = [currentQuery |-> "", limit |-> l, offset |-> 0]
    /\ result = None
    /\ pc = "idle"
    /\ WebIdle

\* the request the client sends and the tool result it receives
SearchRequest(client, r) ==
    /\ arg' = client
    /\ result' = r.content
    /\ threw' = r.threw
    /\ db' = r.db
    /\ pc' = "searchText"
    /\ UNCHANGED webVars
    /\ UNCHANGED <<dbFileExists, reference, content, queries, passage, cite>>

performSearch(client) ==
    SearchRequest(client,
                  searchTextTool(client.currentQuery, client.limit, client.offset,
                                 db, dbFileExists))

searchButtonClick ==
    \E q \in SearchQueries : performSearch([arg EXCEPT !.currentQuery = q, !.offset = 0])

nextButtonClick ==
    /\ arg.currentQuery # ""
    /\ arg.offset + arg.limit <= MaxOffset
    /\ performSearch([arg EXCEPT !.offset = arg.offset + arg.limit])

prevButtonClick ==
    /\ arg.offset >= arg.limit
    /\ performSearch([arg EXCEPT !.offset = arg.offset - arg.limit])

NextSearch ==
    \/ searchButtonClick
    \/ nextButtonClick
    \/ prevButtonClick

SpecSearch == InitSearch /\ [][NextSearch]_vars

(***************************************************************************)
(* SpecProxy: proxy-server.ts.  One Node process: every callback runs to     *)
(* its first await without interleaving.  An attempt is a Client/transport   *)
(* pair created by connectMcpClient, named by its position in attempts; its  *)
(* state is "connecting" (mcpClient.connect is pending), "connected",        *)
(* "failed" or "closed".  The SDK's connect and callTool settle outside the  *)
(* proxy's code: both outcomes are possible.                                 *)
(***************************************************************************)
MaxAttempts == 3

MaxMessages == 2

\* what a browser may send: text that is not JSON, and JSON requests
RawMessages ==
    {[json |-> FALSE, type |-> "", toolName |-> ""],
     [json |-> TRUE, type |-> "ping", toolName |-> ""],
     [json |-> TRUE, type |-> "callTool", toolName |-> "getPassage"],
     [json |-> TRUE, type |-> "callTool", toolName |-> "getEnglishText"],
     [json |-> TRUE, type |-> "callTool", toolName |-> "searchText"]}

\* the message of the error an upstream call rejects with (it may be empty)
RejectionMessages == {"", "Request timed out"}

NotConnectedText == "Not connected to Bible MCP server."

SyntaxErrorText == "Unexpected token in JSON"

ErrorReply(message) == [type |-> "error", text |-> message]

ToolResultReply(toolName) == [type |-> "toolResult", text |-> toolName]

\* the catch block's reply
CatchReply(message) ==
    ErrorReply(IF message = "" THEN "Failed to process request." ELSE message)

\* the message handler up to its first await: what it sends at once, and the
\* tool it calls upstream (None: it returns without a call)
onMessage_SilentUnsupported(raw, client) ==
    IF client = None THEN [sent |-> <<ErrorReply(NotConnectedText)>>, call |-> None]
    ELSE IF ~raw.json THEN [sent |-> <<CatchReply(SyntaxErrorText)>>, call |-> None]
    ELSE IF raw.type # "callTool"
         THEN [sent |-> <<ErrorReply("Invalid request type.")>>, call |-> None]
    ELSE IF raw.toolName \in {"getEnglishText", "searchText"}
         THEN [sent |-> <<>>, call |-> Some(raw.toolName)]
    ELSE [sent |-> <<>>, call |-> None]

onMessage(raw, client) ==
    IF client = None THEN [sent |-> <<ErrorReply(NotConnectedText)>>, call |-> None]
    ELSE IF ~raw.json THEN [sent |-> <<CatchReply(SyntaxErrorText)>>, call |-> None]
    ELSE IF raw.type # "callTool"
         THEN [sent |-> <<ErrorReply("Invalid request type.")>>, call |-> None]
    ELSE IF raw.toolName \in {"getEnglishText", "searchText"}
         THEN [sent |-> <<>>, call |-> Some(raw.toolName)]
    ELSE [sent |-> <<ErrorReply("Unsupported tool: " \o raw.toolName)>>, call |-> None]

\* the end of the connection handler: the status it sends and whether it
\* calls connectMcpClient
onConnection_AlwaysConnect(client, transport) ==
    IF client = None
    THEN [connected |-> FALSE, connect |-> TRUE]
    ELSE [connected |-> TRUE, connect |-> TRUE]

onConnection(client, transport) ==
    IF client = None
    THEN [connected |-> FALSE, connect |-> transport = None]
    ELSE [connected |-> TRUE, connect |-> FALSE]

InitProxy ==
    /\ dbFileExists = TRUE
    /\ ServerIdle
    /\ LibIdle
    /\ ProxyIdle
    /\ ClientIdle
    /\ pc = "idle"

\* connectMcpClient up to its await: both globals are assigned before
\* mcpClient.connect is awaited
connectMcpClient ==
    /\ Len(attempts) < MaxAttempts
    /\ attempts' = Append(attempts, "connecting")
    /\ mcpTransport' = Some(Len(attempts) + 1)
    /\ mcpClient' = Some(Len(attempts) + 1)

\* server.listen's callback
Listen ==
    /\ ~listening
    /\ listening' = TRUE
    /\ connectMcpClient
    /\ pc' = "listen"
    /\ UNCHANGED <<serverVars, libVars, clientVars>>
    /\ UNCHANGED <<onclose, sockets, requests>>

ConnectionHandled(c, h) ==
    /\ sockets' = [sockets EXCEPT ![c] = [state |-> "open",
                                          statuses |-> Append(@.statuses, h.connected)]]
    /\ IF h.connect
       THEN connectMcpClient
       ELSE UNCHANGED <<attempts, mcpTransport, mcpClient>>

\* wss.on('connection')
BrowserConnects ==
    \E c \in Sockets :
        /\ listening
        /\ sockets[c].state = "new"
        /\ ConnectionHandled(c, onConnection(mcpClient, mcpTransport))
        /\ pc' = "connection"
        /\ UNCHANGED <<serverVars, libVars, clientVars>>
        /\ UNCHANGED <<listening, onclose, requests>>

\* the browser closes its socket
BrowserCloses ==
    \E c \in Sockets :
        /\ sockets[c].state = "open"
        /\ sockets' = [sockets EXCEPT ![c].state = "closed"]
        /\ pc' = "close"
        /\ UNCHANGED <<serverVars, libVars, clientVars>>
        /\ UNCHANGED <<listening, mcpClient, mcpTransport, attempts, onclose, requests>>

\* mcpClient.connect resolves: the rest of the try block
ConnectSucceeds ==
    \E i \in 1..Len(attempts) :
        /\ attempts[i] = "connecting"
        /\ attempts' = [attempts EXCEPT ![i] = "connected"]
        /\ onclose' = IF mcpTransport # None THEN onclose \cup {mcpTransport[1]}
                      ELSE onclose
        /\ pc' = "connected"
        /\ UNCHANGED <<serverVars, libVars, clientVars>>
        /\ UNCHANGED <<listening, mcpClient, mcpTransport, sockets, requests>>

\* mcpClient.connect rejects: the catch block
ConnectFails ==
    \E i \in 1..Len(attempts) :
        /\ attempts[i] = "connecting"
        /\ attempts' = [attempts EXCEPT ![i] = "failed"]
        /\ mcpClient' = None
        /\ mcpTransport' = None
        /\ pc' = "connect failed"
        /\ UNCHANGED <<serverVars, libVars, clientVars>>
        /\ UNCHANGED <<listening, onclose, sockets, requests>>

\* an established transport closes: its onclose, if the proxy set one
TransportCloses ==
    \E i \in 1..Len(attempts) :
        /\ attempts[i] = "connected"
        /\ attempts' = [attempts EXCEPT ![i] = "closed"]
        /\ IF i \in onclose
           THEN mcpClient' = None /\ mcpTransport' = None
           ELSE UNCHANGED <<mcpClient, mcpTransport>>
        /\ pc' = "transport closed"
        /\ UNCHANGED <<serverVars, libVars, clientVars>>
        /\ UNCHANGED <<listening, onclose, sockets, requests>>

\* a handler run that has finished: what it was given and every ws.send it made
Handled(id, c, raw, client, called, sent) ==
    [id |-> id, socket |-> c, raw |-> raw, client |-> client, called |-> called,
     sent |-> sent]

MessageHandled(c, raw, h) ==
    requests' =
        IF h.call = None
        THEN [requests EXCEPT
                 !.received = @ + 1,
                 !.last = Some(Handled(requests.received + 1, c, raw, mcpClient,
                                       FALSE, h.sent))]
        ELSE [requests EXCEPT
                 !.received = @ + 1,
                 !.pending = @ \cup {[id |-> requests.received + 1, socket |-> c,
                                      raw |-> raw, client |-> mcpClient,
                                      sent |-> h.sent]}]

\* ws.on('message'), to the first await or to the end
BrowserSends ==
    \E c \in Sockets, raw \in RawMessages :
        /\ sockets[c].state = "open"
        /\ requests.received < MaxMessages
        /\ MessageHandled(c, raw, onMessage(raw, mcpClient))
        /\ pc' = "message"
        /\ UNCHANGED <<serverVars, libVars, clientVars>>
        /\ UNCHANGED <<listening, mcpClient, mcpTransport, attempts, onclose, sockets>>

CallSettled(r, reply) ==
    requests' = [requests EXCEPT
                    !.pending = @ \ {r},
                    !.last = Some(Handled(r.id, r.socket, r.raw, r.client, TRUE,
                                          Append(r.sent, reply)))]

\* mcpClient.callTool resolves: the handler sends the tool result
CallResolves ==
    \E r \in requests.pending :
        /\ attempts[r.client[1]] \in {"connecting", "connected"}
        /\ CallSettled(r, ToolResultReply(r.raw.toolName))
        /\ pc' = "call resolved"
        /\ UNCHANGED <<serverVars, libVars, clientVars>>
        /\ UNCHANGED <<listening, mcpClient, mcpTransport, attempts, onclose, sockets>>

\* mcpClient.callTool rejects: the catch block
CallRejects ==
    \E r \in requests.pending, message \in RejectionMessages :
        /\ CallSettled(r, CatchReply(message))
        /\ pc' = "call rejected"
        /\ UNCHANGED <<serverVars, libVars, clientVars>>
        /\ UNCHANGED <<listening, mcpClient, mcpTransport, attempts, onclose, sockets>>

NextProxy ==
    \/ Listen
    \/ BrowserConnects
    \/ BrowserCloses
    \/ ConnectSucceeds
    \/ ConnectFails
    \/ TransportCloses
    \/ BrowserSends
    \/ CallResolves
    \/ CallRejects

SpecProxy == InitProxy /\ [][NextProxy]_vars

\* a pending connect and a pending call settle (the SDK resolves or rejects them)
ConnectSettles == ConnectSucceeds \/ ConnectFails

CallSettles == CallResolves \/ CallRejects

FairProxy ==
    /\ WF_vars(ConnectSettles)
    /\ WF_vars(CallSettles)

SpecProxyFair == InitProxy /\ [][NextProxy]_vars /\ FairProxy

(***************************************************************************)
(* SpecClient: the web client (script.js).  One page: its WebSocket opens,   *)
(* receives messages, closes and is re-created by the reconnect timer; the   *)
(* user clicks the search, previous and next buttons when they are enabled.  *)
(* The page's markup is not part of the sources: the buttons start disabled, *)
(* the case in which no click precedes the first status message.             *)
(***************************************************************************)
limit == 100

MaxPages == 3

MaxSent == 3

\* queryInput.value.trim()
ClientQueries == {"", "God", "love"}

SearchRequestMessage(query, off) ==
    [type |-> "callTool", toolName |-> "searchText", query |-> query,
     limit |-> limit, offset |-> off]

\* ws.send(JSON.stringify(request))
wsSend(request) ==
    /\ outbox.count < MaxSent
    /\ outbox' = [count |-> outbox.count + 1, last |-> Some(request)]

displayError(message) == errorMessage' = Some(message)

updateStatus(connected) ==
    /\ isConnected' = connected
    /\ disabled' = [searchButton |-> ~connected,
                    prevButton |-> ~connected \/ offset = 0,
                    nextButton |-> ~connected]

\* the buttons after displaySearchResult(results); full: results.length = limit
displaySearchResult(full) ==
    /\ errorMessage' = None
    /\ disabled' = [disabled EXCEPT !.prevButton = (offset = 0), !.nextButton = ~full]

\* connectWebSocket(), called when the script is loaded
InitClient ==
    /\ dbFileExists = TRUE
    /\ ServerIdle
    /\ LibIdle
    /\ ProxyIdle
    /\ ws = "CONNECTING"
    /\ isConnected = FALSE
    /\ currentQuery = ""
    /\ offset = 0
    /\ disabled = [searchButton |-> TRUE, prevButton |-> TRUE, nextButton |-> TRUE]
    /\ errorMessage = None
    /\ outbox = [count |-> 0, last |-> None]
    /\ pc = "loaded"

ClientFrame == UNCHANGED <<serverVars, libVars, proxyVars>>

\* ws.onopen
SocketOpens ==
    /\ ws = "CONNECTING"
    /\ ws' = "OPEN"
    /\ pc' = "onopen"
    /\ UNCHANGED <<isConnected, currentQuery, offset, disabled, errorMessage, outbox>>
    /\ ClientFrame

\* ws.onmessage, case 'status'
StatusMessage ==
    \E connected \in BOOLEAN :
        /\ ws = "OPEN"
        /\ updateStatus(connected)
        /\ pc' = "status"
        /\ UNCHANGED <<ws, currentQuery, offset, errorMessage, outbox>>
        /\ ClientFrame

\* ws.onmessage, case 'toolResult' of searchText
SearchResultMessage ==
    \E full \in BOOLEAN :
        /\ ws = "OPEN"
        /\ outbox.count > 0
        /\ displaySearchResult(full)
        /\ pc' = "toolResult"
        /\ UNCHANGED <<ws, isConnected, currentQuery, offset, outbox>>
        /\ ClientFrame

\* ws.onmessage, case 'error'
ErrorMessage ==
    /\ ws = "OPEN"
    /\ displayError("error from server")
    /\ pc' = "error"
    /\ UNCHANGED <<ws, isConnected, currentQuery, offset, disabled, outbox>>
    /\ ClientFrame

\* ws.onclose
SocketCloses ==
    /\ ws \in {"CONNECTING", "OPEN"}
    /\ ws' = "CLOSED"
    /\ updateStatus(FALSE)
    /\ pc' = "onclose"
    /\ UNCHANGED <<currentQuery, offset, errorMessage, outbox>>
    /\ ClientFrame

\* setTimeout(connectWebSocket, 5000)
connectWebSocket ==
    /\ ws = "CLOSED"
    /\ ws' = "CONNECTING"
    /\ pc' = "reconnect"
    /\ UNCHANGED <<isConnected, currentQuery, offset, disabled, errorMessage, outbox>>
    /\ ClientFrame

SearchClicked(query) ==
    IF query = ""
    THEN /\ displayError("Please enter text to search for.")
         /\ UNCHANGED <<currentQuery, offset, outbox>>
    ELSE IF ws = "OPEN"
    THEN /\ currentQuery' = query
         /\ offset' = 0
         /\ wsSend(SearchRequestMessage(query, 0))
         /\ errorMessage' = None
    ELSE /\ displayError("Not connected to the server.")
         /\ UNCHANGED <<currentQuery, offset, outbox>>

\* searchButton's click listener
SearchClick ==
    \E query \in ClientQueries :
        /\ ~disabled.searchButton
        /\ SearchClicked(query)
        /\ pc' = "search"
        /\ UNCHANGED <<ws, isConnected, disabled>>
        /\ ClientFrame

\* performSearch(), with offset already updated to off
PerformSearch(off) ==
    IF ws = "OPEN" /\ currentQuery # ""
    THEN /\ wsSend(SearchRequestMessage(currentQuery, off))
         /\ errorMessage' = None
    ELSE /\ displayError("Not connected to the server or no query.")
         /\ UNCHANGED outbox

\* prevButton's click listener (with offset < limit it does nothing)
PrevClick ==
    /\ ~disabled.prevButton
    /\ offset >= limit
    /\ offset' = offset - limit
    /\ PerformSearch(offset - limit)
    /\ pc' = "prev"
    /\ UNCHANGED <<ws, isConnected, currentQuery, disabled>>
    /\ ClientFrame

\* nextButton's click listener
NextClick ==
    /\ ~disabled.nextButton
    /\ offset + limit <= MaxPages * limit
    /\ offset' = offset + limit
    /\ PerformSearch(offset + limit)
    /\ pc' = "next"
    /\ UNCHANGED <<ws, isConnected, currentQuery, disabled>>
    /\ ClientFrame

NextClient ==
    \/ SocketOpens
    \/ StatusMessage
    \/ SearchResultMessage
    \/ ErrorMessage
    \/ SocketCloses
    \/ connectWebSocket
    \/ SearchClick
    \/ PrevClick
    \/ NextClick

SpecClient == InitClient /\ [][NextClient]_vars

(***************************************************************************)
(* Properties                                                               *)
(***************************************************************************)
\* the catalog read directly, apart from the lookup maps built from it
BookOfOrdinal(ord) == CHOOSE book \in Books : book.ord = ord

KnownOrdinal(ord) == \E book \in Books : book.ord = ord

IsNumberedNameOf(name, x) == \E d \in 1..9 : name = toString(d) \o " " \o x

Contains(s, part) ==
    \E i \in 1..(Len(s) - Len(part) + 1) : SubSeq(s, i, i + Len(part) - 1) = part

\* C1: when a canonical name is "<digit> <X>" and X names another book, the
\* citation "<digit> <X> C:V" resolves to the numbered book and "<X> C:V" to
\* the unnumbered one.
C1_NumberedBookResolution ==
    (pc = "parseReference" /\ cite # None) =>
        \A b1 \in Books : \A b2 \in Books \ {b1} : \A x \in Aliases(b2) :
            IsNumberedNameOf(b1.name, x) =>
                /\ cite[1].alias = b1.name =>
                       (result # None /\ result[1].bookId = b1.ord /\ result[1].book = b1.name)
                /\ cite[1].alias = x =>
                       (result # None /\ result[1].bookId = b2.ord /\ result[1].book = b2.name)

C1_Witness ==
    /\ pc = "parseReference"
    /\ arg = "3 John 1:15"
    /\ cite # None
    /\ cite[1].alias = "3 John"
    /\ result # None
    /\ result[1].book = "3 John"

\* C2: a citation "<alias> C:V" of a catalog verse, by canonical name or by any
\* registered abbreviation, parses, is valid, and formats as
\* "<canonical name> C:V".
C2_AliasCitationCanonical ==
    (pc = "parseReference" /\ cite # None) =>
        /\ result # None
        /\ isValidReference(result)
        /\ formatReference(result[1]) =
               BookOfOrdinal(cite[1].ord).name \o " " \o toString(cite[1].chapter)
               \o ":" \o toString(cite[1].verse)

C2_Witness ==
    /\ pc = "parseReference"
    /\ arg = "Gn. 2:25"
    /\ cite # None
    /\ result # None
    /\ formatReference(result[1]) = "Genesis 2:25"

\* the token texts in order, one space after each token but the last unless
\* its flag is set, written as a right fold
RECURSIVE SpacedConcat(_)
SpacedConcat(tokens) ==
    IF tokens = <<>> THEN ""
    ELSE IF Len(tokens) = 1 THEN tokens[1].text
    ELSE tokens[1].text \o (IF tokens[1].skip_space_after = 1 THEN "" ELSE " ")
         \o SpacedConcat(Tail(tokens))

\* C3: the assembler returns the token texts in order with one space after
\* each token except the last unless skip_space_after is set; no trailing
\* space, no double space.
C3_AssemblerSpacing ==
    pc = "assembled" =>
        /\ result[1] = SpacedConcat(arg)
        /\ CharAt(result[1], Len(result[1])) # " "
        /\ ~Contains(result[1], "  ")

C3_Witness ==
    /\ pc = "assembled"
    /\ arg = <<[text |-> "In", skip_space_after |-> 0],
               [text |-> "the", skip_space_after |-> 0],
               [text |-> "beginning.", skip_space_after |-> 0]>>
    /\ result = Some("In the beginning.")

\* the rows of one verse, and those of them not flagged excluded
VerseRows(bookId, chapter, verse) ==
    {i \in 1..Len(english_tokens) :
        /\ english_tokens[i].book_num = bookId
        /\ english_tokens[i].chapter = chapter
        /\ english_tokens[i].verse = verse}

UsableRows(bookId, chapter, verse) ==
    {i \in VerseRows(bookId, chapter, verse) : english_tokens[i].exclude = 0}

\* the last tool call returned a verse text (neither message, no throw)
ReturnedVerseText ==
    /\ pc = "getEnglishText"
    /\ ~threw
    /\ content # None
    /\ content # Some(InvalidReferenceText(reference))
    /\ content # Some(NoTextFoundText(reference))

\* C4: the text getEnglishText returns for a verse contains no excluded
\* token's text: it is the assembly of the verse's non-excluded tokens, the
\* text getPassage returns for that single verse.
C4_ExcludedTokensOmitted ==
    ReturnedVerseText =>
        LET r == parseReference(reference)[1]
            p == getPassage([r EXCEPT !.endVerse = None], OPEN, TRUE).value
        IN  /\ Len(p) = 1
            /\ content = Some(p[1].text)
            /\ \A i \in VerseRows(r.bookId, r.chapter, r.verse[1]) \
                        UsableRows(r.bookId, r.chapter, r.verse[1]) :
                   ~Contains(content[1], english_tokens[i].text)

\* C5: a verse with no usable token (none stored, or all flagged excluded) is
\* reported as not found: the tool answers "No text found" for it, and
\* getPassage returns no entry whose text is empty.
C5_EmptyVerseNotFound ==
    /\ (/\ pc = "getEnglishText"
        /\ ~threw
        /\ parseReference(reference) # None
        /\ ~Falsy(parseReference(reference)[1].verse)
        /\ UsableRows(parseReference(reference)[1].bookId,
                      parseReference(reference)[1].chapter,
                      parseReference(reference)[1].verse[1]) = {})
       => content = Some(NoTextFoundText(reference))
    /\ (pc = "getPassage" /\ passage # None)
       => \A i \in 1..Len(passage[1]) : passage[1][i].text # ""

\* C6: for every reference r that isValidReference accepts,
\* parseVerseId(formatVerseId(r)) is non-null with r's bookId, book name and
\* chapter, and r's verse, or 1 when r has none; the end verse is dropped.
C6_VerseIdRoundTrip ==
    (pc = "parseVerseId" /\ isValidReference(arg)) =>
        /\ result # None
        /\ result[1].bookId = arg[1].bookId
        /\ result[1].book = arg[1].book
        /\ result[1].chapter = arg[1].chapter
        /\ result[1].verse = (IF arg[1].verse = None THEN Some(1) ELSE arg[1].verse)
        /\ result[1].endVerse = None

C6_Witness ==
    /\ pc = "parseVerseId"
    /\ isValidReference(arg)
    /\ arg[1].bookId = "19"
    /\ arg[1].chapter = 119
    /\ arg[1].verse = None
    /\ arg[1].endVerse = None
    /\ result # None
    /\ result[1].chapter = 119
    /\ result[1].verse = Some(1)

\* the chapter's verse count read from the catalog, 0 when there is none
CatalogMaxVerse(ord, chapter) ==
    IF KnownOrdinal(ord) /\ chapter \in ChapterNumbers(BookOfOrdinal(ord))
    THEN BookOfOrdinal(ord).chapters[toString(chapter)]
    ELSE 0

\* C7: isValidReference is false when the book ordinal is not in the catalog,
\* the chapter is not in the book's chapter map, the verse is 0 or above the
\* chapter's maximum, or the end verse is below the verse or above the maximum.
C7_ValidatorRejects ==
    pc = "isValidReference" =>
        LET r   == arg[1]
            max == CatalogMaxVerse(r.bookId, r.chapter)
        IN  (\/ ~KnownOrdinal(r.bookId)
             \/ max = 0
             \/ (r.verse # None /\ (r.verse[1] = 0 \/ r.verse[1] > max))
             \/ (r.endVerse # None /\ r.verse # None /\ r.endVerse[1] < r.verse[1])
             \/ (r.endVerse # None /\ r.endVerse[1] > max))
            => result = FALSE

C7_Witness ==
    /\ pc = "isValidReference"
    /\ arg[1].bookId = "43"
    /\ arg[1].chapter = 3
    /\ arg[1].verse = Some(16)
    /\ arg[1].endVerse = Some(2)
    /\ result = FALSE

\* the text holds a book name or abbreviation of the catalog (in any case)
\* followed by whitespace and then a digit
ContainsCitation(text) ==
    \E i \in 1..Len(text) : \E book \in Books : \E a \in Aliases(book) :
        /\ i + Len(a) <= Len(text)
        /\ toLowerCase(SubSeq(text, i, i + Len(a) - 1)) = toLowerCase(a)
        /\ IsSpace(CharAt(text, i + Len(a)))
        /\ \E j \in (i + Len(a) + 1)..Len(text) :
               /\ IsDigit(CharAt(text, j))
               /\ \A k \in (i + Len(a))..(j - 1) : IsSpace(CharAt(text, k))

\* C8: for a citation text with no registered name or alias followed by
\* whitespace and chapter digits, parseReference returns null and the
\* getEnglishText tool answers with a text containing "Invalid Bible reference".
C8_UnparseableIsInvalid ==
    (pc = "getEnglishText" /\ ~ContainsCitation(reference)) =>
        /\ parseReference(reference) = None
        /\ ~threw
        /\ content # None
        /\ Contains(content[1], "Invalid Bible reference")

C8_Witness ==
    /\ pc = "getEnglishText"
    /\ reference = "John abc"
    /\ ~ContainsCitation(reference)
    /\ ~dbFileExists
    /\ content = Some(InvalidReferenceText("John abc"))

\* C9: tokens are fetched only for a reference the validator accepts: a call
\* that issued a storage query had a reference within the catalog's bounds.
C9_ValidatedBeforeFetch ==
    (pc = "getEnglishText" /\ queries # <<>>) => isValidReference(parseReference(reference))

\* C10: every getEnglishText tool call returns one text result - the invalid
\* reference message, the no text found message or the verse text - and
\* throws nothing.
C10_AlwaysOneTextResult ==
    pc = "getEnglishText" =>
        /\ ~threw
        /\ content # None

\* C11: formatReference returns "<book> <chapter>" for a reference with no
\* verse, "<book> <chapter>:<verse>" for one with a verse and no end verse, and
\* "<book> <chapter>:<verse>-<endVerse>" for one with both, for every reference
\* parseReference produces.
C11_FormatReferenceShapes ==
    pc = "formatReference" =>
        LET r    == parseReference(arg)[1]
            head == r.book \o " " \o toString(r.chapter)
        IN  result = (IF r.verse = None THEN head
                      ELSE IF r.endVerse = None THEN head \o ":" \o toString(r.verse[1])
                      ELSE head \o ":" \o toString(r.verse[1])
                           \o "-" \o toString(r.endVerse[1]))

IsDigits(s) == \A i \in 1..Len(s) : IsDigit(CharAt(s, i))

\* C12: for every reference parseReference produces, formatVerseId returns
\* exactly 8 digits: the 2-digit book ordinal, the chapter zero-padded to 3
\* digits and the verse zero-padded to 3 digits, the verse being 1 when the
\* reference has none.
C12_VerseIdEightDigits ==
    pc = "formatVerseId" =>
        LET r == parseReference(arg)[1]
        IN  /\ Len(result) = 8
            /\ IsDigits(result)
            /\ SubSeq(result, 1, 2) = r.bookId
            /\ parseDigits(SubSeq(result, 3, 5), 1, 0) = r.chapter
            /\ parseDigits(SubSeq(result, 6, 8), 1, 0) =
                   (IF r.verse = None THEN 1 ELSE r.verse[1])

\* C13: parseVerseId returns null for every id shorter than 8 characters
\* (the empty string included) and for every id whose first two characters
\* are not a catalog ordinal; getBookAliases returns [] and isValidReference
\* false for an ordinal that is not in the catalog.
C13_UnknownIdNotFound ==
    /\ (pc = "parseVerseId(id)" /\ (Len(arg) < 8 \/ ~KnownOrdinal(substring(arg, 0, 2))))
       => result = None
    /\ (pc = "getBookAliases(id)" /\ ~KnownOrdinal(arg)) => result = <<>>
    /\ (pc = "isValidReference(id)" /\ ~KnownOrdinal(arg)) => result = FALSE

C13_Witness ==
    /\ pc = "parseVerseId(id)"
    /\ arg = "4300301"
    /\ KnownOrdinal(substring(arg, 0, 2))
    /\ result = None

\* n as 3 digits, written out digit by digit
ThreeDigits(n) ==
    CharAt(DigitChars, ((n \div 100) % 10) + 1) \o CharAt(DigitChars, ((n \div 10) % 10) + 1)
    \o CharAt(DigitChars, (n % 10) + 1)

\* C14: for every valid reference r with a verse and every word position p,
\* the id at element p - 1 of referenceToDbId(r, 'hebrew_ot' or 'greek_nt') is
\* the 11 digits book ordinal, chapter, verse, p, and parseWordId decodes it to
\* word position p and a reference with r's book, chapter and verse; an id
\* shorter than 11 characters decodes to null.
C14_WordIdRoundTrip ==
    pc = "parseWordId" =>
        /\ Len(cite[1].id) < 11 => result = None
        /\ (cite[1].table \in {"hebrew_ot", "greek_nt"} /\ cite[1].cut = 11) =>
               /\ cite[1].id = arg[1].bookId \o ThreeDigits(arg[1].chapter)
                                \o ThreeDigits(arg[1].verse[1])
                                \o ThreeDigits(cite[1].position)
               /\ result # None
               /\ result[1].wordPosition = cite[1].position
               /\ result[1].reference.bookId = arg[1].bookId
               /\ result[1].reference.book = arg[1].book
               /\ result[1].reference.chapter = arg[1].chapter
               /\ result[1].reference.verse = arg[1].verse

C14_Witness ==
    /\ pc = "parseWordId"
    /\ cite[1].table = "hebrew_ot"
    /\ cite[1].id = "19119176999"
    /\ result # None
    /\ result[1].wordPosition = 999
    /\ result[1].reference.book = "Psalms"
    /\ result[1].reference.chapter = 119
    /\ result[1].reference.verse = Some(176)

\* C15: the reference parseReference returns carries exactly the numbers
\* written in the citation: "<Book> C" gives chapter C and neither verse nor
\* end verse, "<Book> C:V" gives verse V and no end verse, "<Book> C:V-E"
\* gives verse V and end verse E, whatever whitespace surrounds ':' and '-'.
C15_WrittenNumbersCarried ==
    pc = "parseReference(form)" =>
        /\ result # None
        /\ result[1].chapter = cite[1].chapter
        /\ result[1].verse = cite[1].verse
        /\ result[1].endVerse = cite[1].endVerse

C15_Witness ==
    /\ pc = "parseReference(form)"
    /\ arg = "John 3 :  16  - 18"
    /\ result # None
    /\ result[1].book = "John"
    /\ result[1].chapter = 3
    /\ result[1].verse = Some(16)
    /\ result[1].endVerse = Some(18)

\* C16: matching is case-insensitive: parseReference applied to a re-casing
\* of a citation text (upper, lower, mixed) returns what it returns for the
\* text itself - the same book, chapter, verse and end verse, or null for both.
C16_CaseInsensitive ==
    pc = "parseReference(recased)" => result.parsed = parseReference(arg)

C16_Witness ==
    /\ pc = "parseReference(recased)"
    /\ arg = "1 John 1:1"
    /\ result.text = "1 JoHn 1:1"
    /\ result.parsed # None
    /\ result.parsed[1].book = "1 John"
    /\ result.parsed[1].verse = Some(1)

\* C17: a citation written with the period-stripped form of a registered
\* abbreviation is accepted by parseReference and resolves to the book the
\* citation written with the registered form resolves to.
C17_StrippedAbbreviationAccepted ==
    pc = "parseReference(stripped)" =>
        /\ result # None
        /\ parseReference(arg) # None
        /\ result[1].bookId = parseReference(arg)[1].bookId

\* the verses of a chapter that have a row in storage
StoredVerses(bookId, chapter) ==
    {english_tokens[i].verse : i \in {j \in 1..Len(english_tokens) :
        english_tokens[j].book_num = bookId /\ english_tokens[j].chapter = chapter}}

\* C18: a reference without a verse denotes the whole chapter: getPassage
\* applied to a chapter-only reference returns an entry for every verse of the
\* chapter present in storage, in ascending verse order.
C18_ChapterOnlyIsWholeChapter ==
    (/\ pc = "getPassage"
     /\ ~threw
     /\ passage # None
     /\ parseReference(reference)[1].verse = None)
    => /\ {passage[1][i].verse : i \in 1..Len(passage[1])}
            = StoredVerses(parseReference(reference)[1].bookId,
                           parseReference(reference)[1].chapter)
       /\ \A i \in 1..Len(passage[1]) : \A j \in 1..Len(passage[1]) :
              i < j => passage[1][i].verse < passage[1][j].verse

\* the content for every verse matching the query, in (book, chapter, verse)
\* order
AllMatches(query) == searchTextTool(query, Len(english_tokens), 0, OPEN, TRUE).content[1]

\* positions first .. last of a list, as far as it reaches
Slice(list, first, last) ==
    IF first > Len(list) THEN <<>>
    ELSE SubSeq(list, first, IF last < Len(list) THEN last ELSE Len(list))

\* C19: a searchText call with limit L and offset O returns the matches at
\* positions O .. O+L-1 of the ordered list of matching verses, so the
\* client's successive pages are consecutive and do not overlap.
C19_SearchPaginatesByOffset ==
    pc = "searchText" =>
        /\ ~threw
        /\ result = Some(Slice(AllMatches(arg.currentQuery), arg.offset + 1,
                               arg.offset + arg.limit))

\* book b registers the key: its lower-cased name, a lower-cased
\* abbreviation, or that abbreviation without its periods
Registers(b, key) ==
    \/ key = toLowerCase(bibleData[b].name)
    \/ \E a \in 1..Len(bibleData[b].abbreviations) :
           \/ key = toLowerCase(bibleData[b].abbreviations[a])
           \/ key = stripPeriods(toLowerCase(bibleData[b].abbreviations[a]))

\* the matched book text, lower-cased, with a matched digit prefix reattached
MatchedKey(text) ==
    toLowerCase(verseRegexExec(trim(text))[1].prefix
                \o verseRegexExec(trim(text))[1].bookName)

\* the result is the last book of the catalog that registers the key, if any
\* book registers it
OwnerReturned(key) ==
    \A b \in 1..Len(bibleData) :
        (/\ Registers(b, key)
         /\ \A later \in (b + 1)..Len(bibleData) : ~Registers(later, key))
        => /\ result # None
           /\ result[1].bookId = bibleData[b].ord
           /\ result[1].book = bibleData[b].name
           /\ result[1].testament = bibleData[b].testament

\* C20: when the matched book text (lower-cased, the leading digit prefix
\* reattached) is exactly a key of the alias map, parseReference returns the
\* book registered under that key; the prefix fallback never replaces it with
\* another book or a book of the other testament.
C20_ExactAliasWins ==
    (pc = "parseReference" /\ verseRegexExec(trim(arg)) # None) =>
        OwnerReturned(MatchedKey(arg))

C20_Witness ==
    /\ pc = "parseReference"
    /\ arg = "Jud 1:3"
    /\ MatchedKey(arg) = "jud"
    /\ startsWith("judges", MatchedKey(arg))
    /\ result # None
    /\ result[1].book = "Jude"
    /\ result[1].testament = "NT"

\* the entries of the alias map, in iteration order, whose key is a prefix of
\* the text or has the text as a prefix
RelatedEntries(key) ==
    {i \in 1..Len(bookNameMap) :
        startsWith(key, bookNameMap[i][1]) \/ startsWith(bookNameMap[i][1], key)}

\* the shortest of them, the earliest among equally short ones
ShortestRelated(key) ==
    CHOOSE i \in RelatedEntries(key) : \A j \in RelatedEntries(key) :
        \/ Len(bookNameMap[i][1]) < Len(bookNameMap[j][1])
        \/ Len(bookNameMap[i][1]) = Len(bookNameMap[j][1]) /\ i <= j

FallbackExpected(key) ==
    IF RelatedEntries(key) = {} THEN result = None
    ELSE /\ result # None
         /\ result[1].bookId = bookNameMap[ShortestRelated(key)][2].ord

\* C21: when the matched book text is not a key of the alias map, the
\* fallback resolves it to the book of the shortest registered alias that is a
\* prefix of the text or has the text as a prefix, ties broken by catalog
\* iteration order; when no alias is so related parseReference fails.
C21_FallbackShortestAlias ==
    (/\ pc = "parseReference"
     /\ verseRegexExec(trim(arg)) # None
     /\ \A b \in 1..Len(bibleData) : ~Registers(b, MatchedKey(arg)))
    => FallbackExpected(MatchedKey(arg))

\* C22: every reference parseReference returns satisfies the data-model
\* invariant: if an end verse is present then a verse is present and the end
\* verse is not below the verse.
C22_ParsedRangeOrdered ==
    (pc = "parseReference" /\ result # None /\ result[1].endVerse # None) =>
        /\ result[1].verse # None
        /\ result[1].endVerse[1] >= result[1].verse[1]

\* C23: isValidReference returns false for every reference that has an end
\* verse and no verse, whatever the end verse.
C23_EndVerseWithoutVerseInvalid ==
    (pc = "isValidReference" /\ arg[1].verse = None /\ arg[1].endVerse # None) =>
        result = FALSE

\* the rows S as tokens in word-position order
RECURSIVE InWordOrder(_)
InWordOrder(S) ==
    IF S = {} THEN <<>>
    ELSE <<[text |-> english_tokens[CHOOSE i \in S : \A j \in S :
                        english_tokens[i].word_position <= english_tokens[j].word_position].text,
            skip_space_after |-> english_tokens[CHOOSE i \in S : \A j \in S :
                        english_tokens[i].word_position
                            <= english_tokens[j].word_position].skip_space_after]>>
         \o InWordOrder(S \ {CHOOSE i \in S : \A j \in S :
                        english_tokens[i].word_position <= english_tokens[j].word_position})

\* the entries p are the stored verses of r's chapter within first .. last, in
\* ascending order, each with the assembly of its own non-excluded tokens
RangeEntries(p, r, first, last) ==
    /\ {p[i].verse : i \in 1..Len(p)}
           = {v \in StoredVerses(r.bookId, r.chapter) : first <= v /\ v <= last}
    /\ \A i \in 1..Len(p) : \A j \in 1..Len(p) : i < j => p[i].verse < p[j].verse
    /\ \A i \in 1..Len(p) :
           p[i].text = SpacedConcat(InWordOrder(UsableRows(r.bookId, r.chapter, p[i].verse)))

PassageReference == parseReference(reference)[1]

C25_MatchedAnywhere ==
    (pc = "parseReference(embedded)" /\ parseReference(arg) # None) =>
        result.parsed = parseReference(arg)

C25_Witness ==
    /\ pc = "parseReference(embedded)"
    /\ arg = "John 3:16"
    /\ result.text = "as in John 3:16abc"
    /\ result.parsed # None
    /\ result.parsed[1].book = "John"
    /\ result.parsed[1].chapter = 3
    /\ result.parsed[1].verse = Some(16)

\* the upstream connection is established: the current Client's connect has
\* completed and its transport has not closed
Established == mcpClient # None /\ attempts[mcpClient[1]] = "connected"

\* this step sends socket c the status message {type:'status', connected}
StatusSent(c, connected) ==
    sockets'[c].statuses = Append(sockets[c].statuses, connected)

\* the proxy has told socket c {type:'status', connected}
ToldStatus(c, connected) ==
    \E k \in 1..Len(sockets[c].statuses) : sockets[c].statuses[k] = connected

\* C26: the proxy sends {type:'status', connected:true} to a browser socket
\* only in a step taken while the upstream connection is established (connect
\* has completed and the transport has not closed); in particular not while
\* the connection attempt is still in progress.
C26_ConnectedStatusOnlyWhileEstablished ==
    [][\A c \in Sockets : StatusSent(c, TRUE) => Established]_vars

\* C27: a browser socket that was told connected:false, is still open, and
\* sees the upstream connection established is eventually sent
\* connected:true (unless it closes or the upstream connection is lost
\* first).
C27_ToldDisconnectedEventuallyToldConnected ==
    \A c \in Sockets :
        (ToldStatus(c, FALSE) /\ sockets[c].state = "open" /\ Established)
            ~> (ToldStatus(c, TRUE) \/ sockets[c].state = "closed" \/ ~Established)

\* the handler run h ended with one ws.send, a tool result or an error
RepliedOnce(h) ==
    /\ Len(h.sent) = 1
    /\ h.sent[1].type \in {"toolResult", "error"}

SupportedCall(raw) ==
    raw.json /\ raw.type = "callTool" /\ raw.toolName \in {"getEnglishText", "searchText"}

HandledAsClaimed(h) ==
    /\ RepliedOnce(h)
    /\ h.client = None => (h.sent = <<ErrorReply(NotConnectedText)>> /\ ~h.called)
    /\ ~SupportedCall(h.raw) => (h.sent[1].type = "error" /\ ~h.called)
    /\ (h.client # None /\ SupportedCall(h.raw)) => h.called
    /\ (h.called /\ h.sent[1].type = "toolResult") => h.sent[1].text = h.raw.toolName

\* a handler run waiting for its upstream call has sent nothing yet
AwaitingAsClaimed(r) ==
    /\ r.sent = <<>>
    /\ r.client # None
    /\ SupportedCall(r.raw)

IsPending(n) == \E r \in requests.pending : r.id = n

\* C28: every handler run that has ended (at once, or when its upstream call
\* resolved or rejected) has sent exactly one message on its socket, a
\* toolResult or an error: with no upstream client the error 'Not connected
\* to Bible MCP server.' and no upstream call; for text that is not JSON, a
\* type other than callTool or an unsupported tool an error and no upstream
\* call; a run still waiting for its call has sent nothing yet.
C28_OneReplyPerMessage ==
    /\ requests.last # None => HandledAsClaimed(requests.last[1])
    /\ \A r \in requests.pending : AwaitingAsClaimed(r)

C28_Witness ==
    /\ requests.received = 2
    /\ requests.last # None
    /\ requests.last[1].id = 1
    /\ requests.last[1].called
    /\ requests.last[1].sent = <<ToolResultReply("searchText")>>
    /\ IsPending(2)

\* the attempts whose connect is pending or whose connection is open
Live == {i \in 1..Len(attempts) : attempts[i] \in {"connecting", "connected"}}

\* C29: at most one upstream attempt is connecting or connected at a time,
\* and it is the one the globals name, so the connection handler starts no
\* attempt; when none is (after a failure or a disconnect) both mcpClient and
\* mcpTransport are null and the connection handler starts a fresh attempt.
C29_OneAttemptAtATime ==
    /\ Cardinality(Live) <= 1
    /\ \A i \in Live :
          /\ mcpClient = Some(i)
          /\ mcpTransport = Some(i)
          /\ ~onConnection(mcpClient, mcpTransport).connect
    /\ (listening /\ Live = {}) =>
          /\ mcpClient = None
          /\ mcpTransport = None
          /\ onConnection(mcpClient, mcpTransport).connect

C29_Witness ==
    /\ attempts = <<"failed", "closed", "connecting">>
    /\ mcpClient = Some(3)
    /\ \A c \in Sockets : sockets[c].state = "open"

\* this step sends the server a searchText request for query at offset off
SearchSent(query, off) ==
    /\ outbox'.count = outbox.count + 1
    /\ outbox'.last = Some(SearchRequestMessage(query, off))

\* C30: the client's pagination offset stays a non-negative multiple of the
\* page limit; it decreases only to 0 (a new search) or by the limit from an
\* offset >= limit; and it changes only in a step that sends the server a
\* search request for the stored current query at the new offset.
C30_OffsetChangesOnlyWithRequest ==
    [][/\ offset' >= 0
       /\ offset' % limit = 0
       /\ offset' < offset => (offset' = 0 \/ (offset >= limit /\ offset' = offset - limit))
       /\ offset' # offset => (currentQuery' # "" /\ SearchSent(currentQuery', offset'))]_vars

=============================================================================
